---- MODULE Spec2Model ----
(***************************************************************************)
(* opBNB -> BSC bridge bot: the per-wallet swap workflow                   *)
(* (core/swap_module.py, RhinoSwapModule) and its bounded-concurrency      *)
(* orchestration (core/bot.py, Bot), called batch after batch by           *)
(* ApplicationManager.run (application.py).                                *)
(*                                                                         *)
(* The program is an asyncio program: one action of the model is the code  *)
(* a task runs between two suspension points (await).  The remote bridge   *)
(* API and the chain node are the environment: every answer they give is   *)
(* drawn from the sets held in the variable remote.  A blocking call of    *)
(* the node is given to a worker thread (asyncio.to_thread): the thread    *)
(* making the call is an action of its own, which a cancelled task does    *)
(* not stop.                                                               *)
(*                                                                         *)
(* Conventions for Python values:                                          *)
(*   Optional[x]      <<>> is None, <<x>> is x                             *)
(*   str              a TLA+ string; a str that the code inspects          *)
(*                    character by character or puts in order is a         *)
(*                    sequence of code points                              *)
(*   int              a TLA+ integer; the commitment integer, which has    *)
(*                    no bound, is a sign and hexadecimal digits (PyInt)   *)
(*   dict.get(k)      the value Absent when the key is missing             *)
(*   amounts          integers, in units of 10^-18 BNB (wei)               *)
(*   float amounts    the explicit amount of process_swap is a binary      *)
(*                    float: below 2^31 units no float other than 0 is a   *)
(*                    whole or a half number of units, so the float is     *)
(*                    named by the half unit it lies in: 0 is 0.0, a > 0   *)
(*                    is a float strictly between (a-1)/2 and a/2 units,   *)
(*                    a < 0 one strictly between a/2 and (a+1)/2 units     *)
(***************************************************************************)
EXTENDS Integers, Sequences, FiniteSets, TLC

VARIABLES
    wallets,    \* config.wallets: the list of private keys
    remote,     \* the answers the bridge API and the chain node may give
    orch,       \* position of Bot.process_swaps
    sem,        \* loader.semaphore: its counter and its waiters
    holders,    \* the tasks inside "async with semaphore"
    task        \* one record per safe_swap task, see NewTask

vars == <<wallets, remote, orch, sem, holders, task>>

-----------------------------------------------------------------------------
(* Bounds of the model *)

\* number of wallets in config.wallets
MaxWallets == 3
\* config.application_settings.threads, the capacity of the semaphore
NThreads == 2
\* config.attempts_and_delay_settings.delay_before_start.max
MaxDelay == 1
\* largest gas price (wei) the node answers
MaxGasPrice == 2
\* length of the hexadecimal part of a committed quote identifier
MaxHexLen == 2

(* Program constants *)

\* conservative_gas in _calc_max_send_wei, and the gas_limit fallback
ConservativeGas == 300000
\* safety_mul = Decimal("1.25"), as a percentage
SafetyMulPct == 125
\* gas_est * 1.20, as a percentage
GasMulPct == 120

TOKEN_IN == "BNB"
TOKEN_OUT == "BNB"

-----------------------------------------------------------------------------
(* Python values *)

None == <<>>
Some(x) == <<x>>
Absent == "<absent>"

\* truth value of a str or of a missing dict entry: None and "" are falsy
Truthy(v) == v # Absent /\ v # ""

\* a or b, for dict.get results
Or(a, b) == IF Truthy(a) THEN a ELSE b

\* the elements of a list
Range(q) == {q[i] : i \in 1..Len(q)}

-----------------------------------------------------------------------------
(* Strings that the code inspects or orders: a str is a sequence of          *)
(* characters, a character is its code point.  The tables of the Unicode    *)
(* database are those of Unicode 14.0, which CPython 3.11 carries.          *)

\* the printable characters of ASCII in the order of their code points:
\* U+0020 to U+005F
AsciiLow ==
    <<" ", "!", "\"", "#", "$", "%", "&", "'", "(", ")", "*", "+", ",", "-", ".", "/",
      "0", "1", "2", "3", "4", "5", "6", "7", "8", "9", ":", ";", "<", "=", ">", "?",
      "@", "A", "B", "C", "D", "E", "F", "G", "H", "I", "J", "K", "L", "M", "N", "O",
      "P", "Q", "R", "S", "T", "U", "V", "W", "X", "Y", "Z", "[", "\\", "]", "^", "_">>

\* U+0061 to U+007E
AsciiHigh ==
    <<"a", "b", "c", "d", "e", "f", "g", "h", "i", "j", "k", "l", "m", "n", "o", "p",
      "q", "r", "s", "t", "u", "v", "w", "x", "y", "z", "{", "|", "}", "~">>

\* ord(c), for a printable character of ASCII (U+0060 is not among them)
Ord(c) ==
    IF \E i \in 1..Len(AsciiLow) : AsciiLow[i] = c
    THEN 31 + (CHOOSE i \in 1..Len(AsciiLow) : AsciiLow[i] = c)
    ELSE 96 + (CHOOSE i \in 1..Len(AsciiHigh) : AsciiHigh[i] = c)

\* the str spelled by the characters of s
Str(s) == [i \in 1..Len(s) |-> Ord(s[i])]

\* the characters with a lower-case mapping of one character, in runs
\* <<first, last, step, offset>>
LowerRanges ==
    {<<65, 90, 1, 32>>, <<192, 214, 1, 32>>, <<216, 222, 1, 32>>, <<256, 302, 2, 1>>, <<306, 310, 2, 1>>, <<313, 327, 2, 1>>,
     <<330, 374, 2, 1>>, <<376, 376, 1, -121>>, <<377, 381, 2, 1>>, <<385, 385, 1, 210>>, <<386, 388, 2, 1>>, <<390, 390, 1, 206>>,
     <<391, 391, 1, 1>>, <<393, 394, 1, 205>>, <<395, 395, 1, 1>>, <<398, 398, 1, 79>>, <<399, 399, 1, 202>>, <<400, 400, 1, 203>>,
     <<401, 401, 1, 1>>, <<403, 403, 1, 205>>, <<404, 404, 1, 207>>, <<406, 406, 1, 211>>, <<407, 407, 1, 209>>, <<408, 408, 1, 1>>,
     <<412, 412, 1, 211>>, <<413, 413, 1, 213>>, <<415, 415, 1, 214>>, <<416, 420, 2, 1>>, <<422, 422, 1, 218>>, <<423, 423, 1, 1>>,
     <<425, 425, 1, 218>>, <<428, 428, 1, 1>>, <<430, 430, 1, 218>>, <<431, 431, 1, 1>>, <<433, 434, 1, 217>>, <<435, 437, 2, 1>>,
     <<439, 439, 1, 219>>, <<440, 440, 1, 1>>, <<444, 444, 1, 1>>, <<452, 452, 1, 2>>, <<453, 453, 1, 1>>, <<455, 455, 1, 2>>,
     <<456, 456, 1, 1>>, <<458, 458, 1, 2>>, <<459, 475, 2, 1>>, <<478, 494, 2, 1>>, <<497, 497, 1, 2>>, <<498, 500, 2, 1>>,
     <<502, 502, 1, -97>>, <<503, 503, 1, -56>>, <<504, 542, 2, 1>>, <<544, 544, 1, -130>>, <<546, 562, 2, 1>>, <<570, 570, 1, 10795>>,
     <<571, 571, 1, 1>>, <<573, 573, 1, -163>>, <<574, 574, 1, 10792>>, <<577, 577, 1, 1>>, <<579, 579, 1, -195>>, <<580, 580, 1, 69>>,
     <<581, 581, 1, 71>>, <<582, 590, 2, 1>>, <<880, 882, 2, 1>>, <<886, 886, 1, 1>>, <<895, 895, 1, 116>>, <<902, 902, 1, 38>>,
     <<904, 906, 1, 37>>, <<908, 908, 1, 64>>, <<910, 911, 1, 63>>, <<913, 929, 1, 32>>, <<931, 939, 1, 32>>, <<975, 975, 1, 8>>,
     <<984, 1006, 2, 1>>, <<1012, 1012, 1, -60>>, <<1015, 1015, 1, 1>>, <<1017, 1017, 1, -7>>, <<1018, 1018, 1, 1>>, <<1021, 1023, 1, -130>>,
     <<1024, 1039, 1, 80>>, <<1040, 1071, 1, 32>>, <<1120, 1152, 2, 1>>, <<1162, 1214, 2, 1>>, <<1216, 1216, 1, 15>>, <<1217, 1229, 2, 1>>,
     <<1232, 1326, 2, 1>>, <<1329, 1366, 1, 48>>, <<4256, 4293, 1, 7264>>, <<4295, 4295, 1, 7264>>, <<4301, 4301, 1, 7264>>, <<5024, 5103, 1, 38864>>,
     <<5104, 5109, 1, 8>>, <<7312, 7354, 1, -3008>>, <<7357, 7359, 1, -3008>>, <<7680, 7828, 2, 1>>, <<7838, 7838, 1, -7615>>, <<7840, 7934, 2, 1>>,
     <<7944, 7951, 1, -8>>, <<7960, 7965, 1, -8>>, <<7976, 7983, 1, -8>>, <<7992, 7999, 1, -8>>, <<8008, 8013, 1, -8>>, <<8025, 8031, 2, -8>>,
     <<8040, 8047, 1, -8>>, <<8072, 8079, 1, -8>>, <<8088, 8095, 1, -8>>, <<8104, 8111, 1, -8>>, <<8120, 8121, 1, -8>>, <<8122, 8123, 1, -74>>,
     <<8124, 8124, 1, -9>>, <<8136, 8139, 1, -86>>, <<8140, 8140, 1, -9>>, <<8152, 8153, 1, -8>>, <<8154, 8155, 1, -100>>, <<8168, 8169, 1, -8>>,
     <<8170, 8171, 1, -112>>, <<8172, 8172, 1, -7>>, <<8184, 8185, 1, -128>>, <<8186, 8187, 1, -126>>, <<8188, 8188, 1, -9>>, <<8486, 8486, 1, -7517>>,
     <<8490, 8490, 1, -8383>>, <<8491, 8491, 1, -8262>>, <<8498, 8498, 1, 28>>, <<8544, 8559, 1, 16>>, <<8579, 8579, 1, 1>>, <<9398, 9423, 1, 26>>,
     <<11264, 11311, 1, 48>>, <<11360, 11360, 1, 1>>, <<11362, 11362, 1, -10743>>, <<11363, 11363, 1, -3814>>, <<11364, 11364, 1, -10727>>, <<11367, 11371, 2, 1>>,
     <<11373, 11373, 1, -10780>>, <<11374, 11374, 1, -10749>>, <<11375, 11375, 1, -10783>>, <<11376, 11376, 1, -10782>>, <<11378, 11378, 1, 1>>, <<11381, 11381, 1, 1>>,
     <<11390, 11391, 1, -10815>>, <<11392, 11490, 2, 1>>, <<11499, 11501, 2, 1>>, <<11506, 11506, 1, 1>>, <<42560, 42604, 2, 1>>, <<42624, 42650, 2, 1>>,
     <<42786, 42798, 2, 1>>, <<42802, 42862, 2, 1>>, <<42873, 42875, 2, 1>>, <<42877, 42877, 1, -35332>>, <<42878, 42886, 2, 1>>, <<42891, 42891, 1, 1>>,
     <<42893, 42893, 1, -42280>>, <<42896, 42898, 2, 1>>, <<42902, 42920, 2, 1>>, <<42922, 42922, 1, -42308>>, <<42923, 42923, 1, -42319>>, <<42924, 42924, 1, -42315>>,
     <<42925, 42925, 1, -42305>>, <<42926, 42926, 1, -42308>>, <<42928, 42928, 1, -42258>>, <<42929, 42929, 1, -42282>>, <<42930, 42930, 1, -42261>>, <<42931, 42931, 1, 928>>,
     <<42932, 42946, 2, 1>>, <<42948, 42948, 1, -48>>, <<42949, 42949, 1, -42307>>, <<42950, 42950, 1, -35384>>, <<42951, 42953, 2, 1>>, <<42960, 42960, 1, 1>>,
     <<42966, 42968, 2, 1>>, <<42997, 42997, 1, 1>>, <<65313, 65338, 1, 32>>, <<66560, 66599, 1, 40>>, <<66736, 66771, 1, 40>>, <<66928, 66938, 1, 39>>,
     <<66940, 66954, 1, 39>>, <<66956, 66962, 1, 39>>, <<66964, 66965, 1, 39>>, <<68736, 68786, 1, 64>>, <<71840, 71871, 1, 32>>, <<93760, 93791, 1, 32>>,
     <<125184, 125217, 1, 34>>}

\* the characters the final-sigma rule of str.lower() skips (Case_Ignorable),
\* in ranges <<first, last>>
CaseIgnorableRanges ==
    {<<39, 39>>, <<46, 46>>, <<58, 58>>, <<94, 94>>, <<96, 96>>, <<168, 168>>,
     <<173, 173>>, <<175, 175>>, <<180, 180>>, <<183, 184>>, <<688, 879>>, <<884, 885>>,
     <<890, 890>>, <<900, 901>>, <<903, 903>>, <<1155, 1161>>, <<1369, 1369>>, <<1375, 1375>>,
     <<1425, 1469>>, <<1471, 1471>>, <<1473, 1474>>, <<1476, 1477>>, <<1479, 1479>>, <<1524, 1524>>,
     <<1536, 1541>>, <<1552, 1562>>, <<1564, 1564>>, <<1600, 1600>>, <<1611, 1631>>, <<1648, 1648>>,
     <<1750, 1757>>, <<1759, 1768>>, <<1770, 1773>>, <<1807, 1807>>, <<1809, 1809>>, <<1840, 1866>>,
     <<1958, 1968>>, <<2027, 2037>>, <<2042, 2042>>, <<2045, 2045>>, <<2070, 2093>>, <<2137, 2139>>,
     <<2184, 2184>>, <<2192, 2193>>, <<2200, 2207>>, <<2249, 2306>>, <<2362, 2362>>, <<2364, 2364>>,
     <<2369, 2376>>, <<2381, 2381>>, <<2385, 2391>>, <<2402, 2403>>, <<2417, 2417>>, <<2433, 2433>>,
     <<2492, 2492>>, <<2497, 2500>>, <<2509, 2509>>, <<2530, 2531>>, <<2558, 2558>>, <<2561, 2562>>,
     <<2620, 2620>>, <<2625, 2626>>, <<2631, 2632>>, <<2635, 2637>>, <<2641, 2641>>, <<2672, 2673>>,
     <<2677, 2677>>, <<2689, 2690>>, <<2748, 2748>>, <<2753, 2757>>, <<2759, 2760>>, <<2765, 2765>>,
     <<2786, 2787>>, <<2810, 2815>>, <<2817, 2817>>, <<2876, 2876>>, <<2879, 2879>>, <<2881, 2884>>,
     <<2893, 2893>>, <<2901, 2902>>, <<2914, 2915>>, <<2946, 2946>>, <<3008, 3008>>, <<3021, 3021>>,
     <<3072, 3072>>, <<3076, 3076>>, <<3132, 3132>>, <<3134, 3136>>, <<3142, 3144>>, <<3146, 3149>>,
     <<3157, 3158>>, <<3170, 3171>>, <<3201, 3201>>, <<3260, 3260>>, <<3263, 3263>>, <<3270, 3270>>,
     <<3276, 3277>>, <<3298, 3299>>, <<3328, 3329>>, <<3387, 3388>>, <<3393, 3396>>, <<3405, 3405>>,
     <<3426, 3427>>, <<3457, 3457>>, <<3530, 3530>>, <<3538, 3540>>, <<3542, 3542>>, <<3633, 3633>>,
     <<3636, 3642>>, <<3654, 3662>>, <<3761, 3761>>, <<3764, 3772>>, <<3782, 3782>>, <<3784, 3789>>,
     <<3864, 3865>>, <<3893, 3893>>, <<3895, 3895>>, <<3897, 3897>>, <<3953, 3966>>, <<3968, 3972>>,
     <<3974, 3975>>, <<3981, 3991>>, <<3993, 4028>>, <<4038, 4038>>, <<4141, 4144>>, <<4146, 4151>>,
     <<4153, 4154>>, <<4157, 4158>>, <<4184, 4185>>, <<4190, 4192>>, <<4209, 4212>>, <<4226, 4226>>,
     <<4229, 4230>>, <<4237, 4237>>, <<4253, 4253>>, <<4348, 4348>>, <<4957, 4959>>, <<5906, 5908>>,
     <<5938, 5939>>, <<5970, 5971>>, <<6002, 6003>>, <<6068, 6069>>, <<6071, 6077>>, <<6086, 6086>>,
     <<6089, 6099>>, <<6103, 6103>>, <<6109, 6109>>, <<6155, 6159>>, <<6211, 6211>>, <<6277, 6278>>,
     <<6313, 6313>>, <<6432, 6434>>, <<6439, 6440>>, <<6450, 6450>>, <<6457, 6459>>, <<6679, 6680>>,
     <<6683, 6683>>, <<6742, 6742>>, <<6744, 6750>>, <<6752, 6752>>, <<6754, 6754>>, <<6757, 6764>>,
     <<6771, 6780>>, <<6783, 6783>>, <<6823, 6823>>, <<6832, 6862>>, <<6912, 6915>>, <<6964, 6964>>,
     <<6966, 6970>>, <<6972, 6972>>, <<6978, 6978>>, <<7019, 7027>>, <<7040, 7041>>, <<7074, 7077>>,
     <<7080, 7081>>, <<7083, 7085>>, <<7142, 7142>>, <<7144, 7145>>, <<7149, 7149>>, <<7151, 7153>>,
     <<7212, 7219>>, <<7222, 7223>>, <<7288, 7293>>, <<7376, 7378>>, <<7380, 7392>>, <<7394, 7400>>,
     <<7405, 7405>>, <<7412, 7412>>, <<7416, 7417>>, <<7468, 7530>>, <<7544, 7544>>, <<7579, 7679>>,
     <<8125, 8125>>, <<8127, 8129>>, <<8141, 8143>>, <<8157, 8159>>, <<8173, 8175>>, <<8189, 8190>>,
     <<8203, 8207>>, <<8216, 8217>>, <<8228, 8228>>, <<8231, 8231>>, <<8234, 8238>>, <<8288, 8292>>,
     <<8294, 8303>>, <<8305, 8305>>, <<8319, 8319>>, <<8336, 8348>>, <<8400, 8432>>, <<11388, 11389>>,
     <<11503, 11505>>, <<11631, 11631>>, <<11647, 11647>>, <<11744, 11775>>, <<11823, 11823>>, <<12293, 12293>>,
     <<12330, 12333>>, <<12337, 12341>>, <<12347, 12347>>, <<12441, 12446>>, <<12540, 12542>>, <<40981, 40981>>,
     <<42232, 42237>>, <<42508, 42508>>, <<42607, 42610>>, <<42612, 42621>>, <<42623, 42623>>, <<42652, 42655>>,
     <<42736, 42737>>, <<42752, 42785>>, <<42864, 42864>>, <<42888, 42890>>, <<42994, 42996>>, <<43000, 43001>>,
     <<43010, 43010>>, <<43014, 43014>>, <<43019, 43019>>, <<43045, 43046>>, <<43052, 43052>>, <<43204, 43205>>,
     <<43232, 43249>>, <<43263, 43263>>, <<43302, 43309>>, <<43335, 43345>>, <<43392, 43394>>, <<43443, 43443>>,
     <<43446, 43449>>, <<43452, 43453>>, <<43471, 43471>>, <<43493, 43494>>, <<43561, 43566>>, <<43569, 43570>>,
     <<43573, 43574>>, <<43587, 43587>>, <<43596, 43596>>, <<43632, 43632>>, <<43644, 43644>>, <<43696, 43696>>,
     <<43698, 43700>>, <<43703, 43704>>, <<43710, 43711>>, <<43713, 43713>>, <<43741, 43741>>, <<43756, 43757>>,
     <<43763, 43764>>, <<43766, 43766>>, <<43867, 43871>>, <<43881, 43883>>, <<44005, 44005>>, <<44008, 44008>>,
     <<44013, 44013>>, <<64286, 64286>>, <<64434, 64450>>, <<65024, 65039>>, <<65043, 65043>>, <<65056, 65071>>,
     <<65106, 65106>>, <<65109, 65109>>, <<65279, 65279>>, <<65287, 65287>>, <<65294, 65294>>, <<65306, 65306>>,
     <<65342, 65342>>, <<65344, 65344>>, <<65392, 65392>>, <<65438, 65439>>, <<65507, 65507>>, <<65529, 65531>>,
     <<66045, 66045>>, <<66272, 66272>>, <<66422, 66426>>, <<67456, 67461>>, <<67463, 67504>>, <<67506, 67514>>,
     <<68097, 68099>>, <<68101, 68102>>, <<68108, 68111>>, <<68152, 68154>>, <<68159, 68159>>, <<68325, 68326>>,
     <<68900, 68903>>, <<69291, 69292>>, <<69446, 69456>>, <<69506, 69509>>, <<69633, 69633>>, <<69688, 69702>>,
     <<69744, 69744>>, <<69747, 69748>>, <<69759, 69761>>, <<69811, 69814>>, <<69817, 69818>>, <<69821, 69821>>,
     <<69826, 69826>>, <<69837, 69837>>, <<69888, 69890>>, <<69927, 69931>>, <<69933, 69940>>, <<70003, 70003>>,
     <<70016, 70017>>, <<70070, 70078>>, <<70089, 70092>>, <<70095, 70095>>, <<70191, 70193>>, <<70196, 70196>>,
     <<70198, 70199>>, <<70206, 70206>>, <<70367, 70367>>, <<70371, 70378>>, <<70400, 70401>>, <<70459, 70460>>,
     <<70464, 70464>>, <<70502, 70508>>, <<70512, 70516>>, <<70712, 70719>>, <<70722, 70724>>, <<70726, 70726>>,
     <<70750, 70750>>, <<70835, 70840>>, <<70842, 70842>>, <<70847, 70848>>, <<70850, 70851>>, <<71090, 71093>>,
     <<71100, 71101>>, <<71103, 71104>>, <<71132, 71133>>, <<71219, 71226>>, <<71229, 71229>>, <<71231, 71232>>,
     <<71339, 71339>>, <<71341, 71341>>, <<71344, 71349>>, <<71351, 71351>>, <<71453, 71455>>, <<71458, 71461>>,
     <<71463, 71467>>, <<71727, 71735>>, <<71737, 71738>>, <<71995, 71996>>, <<71998, 71998>>, <<72003, 72003>>,
     <<72148, 72151>>, <<72154, 72155>>, <<72160, 72160>>, <<72193, 72202>>, <<72243, 72248>>, <<72251, 72254>>,
     <<72263, 72263>>, <<72273, 72278>>, <<72281, 72283>>, <<72330, 72342>>, <<72344, 72345>>, <<72752, 72758>>,
     <<72760, 72765>>, <<72767, 72767>>, <<72850, 72871>>, <<72874, 72880>>, <<72882, 72883>>, <<72885, 72886>>,
     <<73009, 73014>>, <<73018, 73018>>, <<73020, 73021>>, <<73023, 73029>>, <<73031, 73031>>, <<73104, 73105>>,
     <<73109, 73109>>, <<73111, 73111>>, <<73459, 73460>>, <<78896, 78904>>, <<92912, 92916>>, <<92976, 92982>>,
     <<92992, 92995>>, <<94031, 94031>>, <<94095, 94111>>, <<94176, 94177>>, <<94179, 94180>>, <<110576, 110579>>,
     <<110581, 110587>>, <<110589, 110590>>, <<113821, 113822>>, <<113824, 113827>>, <<118528, 118573>>, <<118576, 118598>>,
     <<119143, 119145>>, <<119155, 119170>>, <<119173, 119179>>, <<119210, 119213>>, <<119362, 119364>>, <<121344, 121398>>,
     <<121403, 121452>>, <<121461, 121461>>, <<121476, 121476>>, <<121499, 121503>>, <<121505, 121519>>, <<122880, 122886>>,
     <<122888, 122904>>, <<122907, 122913>>, <<122915, 122916>>, <<122918, 122922>>, <<123184, 123197>>, <<123566, 123566>>,
     <<123628, 123631>>, <<125136, 125142>>, <<125252, 125259>>, <<127995, 127999>>, <<917505, 917505>>, <<917536, 917631>>,
     <<917760, 917999>>}

\* the cased characters among those the rule does not skip
CasedRanges ==
    {<<65, 90>>, <<97, 122>>, <<170, 170>>, <<181, 181>>, <<186, 186>>, <<192, 214>>,
     <<216, 246>>, <<248, 442>>, <<444, 447>>, <<452, 659>>, <<661, 687>>, <<880, 883>>,
     <<886, 887>>, <<891, 893>>, <<895, 895>>, <<902, 902>>, <<904, 906>>, <<908, 908>>,
     <<910, 929>>, <<931, 1013>>, <<1015, 1153>>, <<1162, 1327>>, <<1329, 1366>>, <<1376, 1416>>,
     <<4256, 4293>>, <<4295, 4295>>, <<4301, 4301>>, <<4304, 4346>>, <<4349, 4351>>, <<5024, 5109>>,
     <<5112, 5117>>, <<7296, 7304>>, <<7312, 7354>>, <<7357, 7359>>, <<7424, 7467>>, <<7531, 7543>>,
     <<7545, 7578>>, <<7680, 7957>>, <<7960, 7965>>, <<7968, 8005>>, <<8008, 8013>>, <<8016, 8023>>,
     <<8025, 8025>>, <<8027, 8027>>, <<8029, 8029>>, <<8031, 8061>>, <<8064, 8116>>, <<8118, 8124>>,
     <<8126, 8126>>, <<8130, 8132>>, <<8134, 8140>>, <<8144, 8147>>, <<8150, 8155>>, <<8160, 8172>>,
     <<8178, 8180>>, <<8182, 8188>>, <<8450, 8450>>, <<8455, 8455>>, <<8458, 8467>>, <<8469, 8469>>,
     <<8473, 8477>>, <<8484, 8484>>, <<8486, 8486>>, <<8488, 8488>>, <<8490, 8493>>, <<8495, 8500>>,
     <<8505, 8505>>, <<8508, 8511>>, <<8517, 8521>>, <<8526, 8526>>, <<8544, 8575>>, <<8579, 8580>>,
     <<9398, 9449>>, <<11264, 11387>>, <<11390, 11492>>, <<11499, 11502>>, <<11506, 11507>>, <<11520, 11557>>,
     <<11559, 11559>>, <<11565, 11565>>, <<42560, 42605>>, <<42624, 42651>>, <<42786, 42863>>, <<42865, 42887>>,
     <<42891, 42894>>, <<42896, 42954>>, <<42960, 42961>>, <<42963, 42963>>, <<42965, 42969>>, <<42997, 42998>>,
     <<43002, 43002>>, <<43824, 43866>>, <<43872, 43880>>, <<43888, 43967>>, <<64256, 64262>>, <<64275, 64279>>,
     <<65313, 65338>>, <<65345, 65370>>, <<66560, 66639>>, <<66736, 66771>>, <<66776, 66811>>, <<66928, 66938>>,
     <<66940, 66954>>, <<66956, 66962>>, <<66964, 66965>>, <<66967, 66977>>, <<66979, 66993>>, <<66995, 67001>>,
     <<67003, 67004>>, <<68736, 68786>>, <<68800, 68850>>, <<71840, 71903>>, <<93760, 93823>>, <<119808, 119892>>,
     <<119894, 119964>>, <<119966, 119967>>, <<119970, 119970>>, <<119973, 119974>>, <<119977, 119980>>, <<119982, 119993>>,
     <<119995, 119995>>, <<119997, 120003>>, <<120005, 120069>>, <<120071, 120074>>, <<120077, 120084>>, <<120086, 120092>>,
     <<120094, 120121>>, <<120123, 120126>>, <<120128, 120132>>, <<120134, 120134>>, <<120138, 120144>>, <<120146, 120485>>,
     <<120488, 120512>>, <<120514, 120538>>, <<120540, 120570>>, <<120572, 120596>>, <<120598, 120628>>, <<120630, 120654>>,
     <<120656, 120686>>, <<120688, 120712>>, <<120714, 120744>>, <<120746, 120770>>, <<120772, 120779>>, <<122624, 122633>>,
     <<122635, 122654>>, <<125184, 125251>>, <<127280, 127305>>, <<127312, 127337>>, <<127344, 127369>>}

IsCaseIgnorable(c) == \E r \in CaseIgnorableRanges : r[1] <= c /\ c <= r[2]

\* asked of a character that is not skipped
IsCased(c) == \E r \in CasedRanges : r[1] <= c /\ c <= r[2]

\* the lower case of a character that has a mapping of one character
LowerChar(c) ==
    IF c < 128 THEN (IF c \in 65..90 THEN c + 32 ELSE c)
    ELSE IF \E r \in LowerRanges : r[1] <= c /\ c <= r[2] /\ (c - r[1]) % r[3] = 0
    THEN c + (CHOOSE r \in LowerRanges : r[1] <= c /\ c <= r[2] /\ (c - r[1]) % r[3] = 0)[4]
    ELSE c

\* the first character at or before position i that is not skipped is cased
RECURSIVE CasedBefore(_, _)
CasedBefore(s, i) ==
    IF i = 0 THEN FALSE
    ELSE IF IsCaseIgnorable(s[i]) THEN CasedBefore(s, i - 1) ELSE IsCased(s[i])

\* the first character at or after position i that is not skipped is cased
RECURSIVE CasedAfter(_, _)
CasedAfter(s, i) ==
    IF i > Len(s) THEN FALSE
    ELSE IF IsCaseIgnorable(s[i]) THEN CasedAfter(s, i + 1) ELSE IsCased(s[i])

\* what str.lower() puts for the character at position i: U+03A3 gives the
\* final sigma at the end of a word, U+0130 gives two characters
LowerAt(s, i) ==
    IF s[i] = 931
    THEN <<IF CasedBefore(s, i - 1) /\ ~CasedAfter(s, i + 1) THEN 962 ELSE 963>>
    ELSE IF s[i] = 304 THEN <<105, 775>>
    ELSE <<LowerChar(s[i])>>

RECURSIVE LowerFrom(_, _)
LowerFrom(s, i) == IF i > Len(s) THEN <<>> ELSE LowerAt(s, i) \o LowerFrom(s, i + 1)

\* str.lower()
Lower(s) == LowerFrom(s, 1)

\* the characters str.strip() drops at both ends
WhiteSpace ==
    (9..13) \cup (28..32) \cup {133, 160, 5760} \cup (8192..8202)
    \cup {8232, 8233, 8239, 8287, 12288}

IsSpace(c) == c \in WhiteSpace

RECURSIVE LStrip(_)
LStrip(s) == IF s # <<>> /\ IsSpace(Head(s)) THEN LStrip(Tail(s)) ELSE s

RECURSIVE RStrip(_)
RStrip(s) ==
    IF s # <<>> /\ IsSpace(s[Len(s)]) THEN RStrip(SubSeq(s, 1, Len(s) - 1)) ELSE s

\* str.strip()
Strip(s) == RStrip(LStrip(s))

\* str.startswith("0x")
StartsWith0x(s) == Len(s) >= 2 /\ s[1] = 48 /\ s[2] = 120

\* the code points of the digit zero of every script (general category Nd);
\* the digits 1 to 9 of the script follow it
DecimalZeros ==
    {48, 1632, 1776, 1984, 2406, 2534, 2662, 2790, 2918, 3046, 3174, 3302,
     3430, 3558, 3664, 3792, 3872, 4160, 4240, 6112, 6160, 6470, 6608, 6784,
     6800, 6992, 7088, 7232, 7248, 42528, 43216, 43264, 43472, 43504, 43600, 44016,
     65296, 66720, 68912, 69734, 69872, 69942, 70096, 70384, 70736, 70864, 71248, 71360,
     71472, 71904, 72016, 72784, 73040, 73120, 92768, 92864, 93008, 120782, 120792, 120802,
     120812, 120822, 123200, 123632, 125264, 130032}

IsDecimal(c) == \E z \in DecimalZeros : z <= c /\ c <= z + 9

DecimalValue(c) == c - (CHOOSE z \in DecimalZeros : z <= c /\ c <= z + 9)

\* what int() reads for a character: one of ASCII below U+007F is kept, any
\* other white space is a space, any other decimal digit is its ASCII digit,
\* anything else is "?"
ToAscii(c) ==
    IF c < 127 THEN c
    ELSE IF IsSpace(c) THEN 32
    ELSE IF IsDecimal(c) THEN 48 + DecimalValue(c)
    ELSE 63

\* int(c, 16) accepts the character c: a hexadecimal digit of either case,
\* or a decimal digit of any script
IsHexDigit(c) == ToAscii(c) \in (48..57) \cup (65..70) \cup (97..102)

\* int(c, 16) for such a character
DigitValue(c) ==
    IF ToAscii(c) <= 57 THEN ToAscii(c) - 48
    ELSE IF ToAscii(c) <= 70 THEN ToAscii(c) - 55
    ELSE ToAscii(c) - 87

\* A Python int has no bound: it is held as its sign and the hexadecimal
\* digits of its magnitude, the most significant first and not 0; the int 0
\* has no digit and the sign 0
PyInt(sign, digits) == [sign |-> IF digits = <<>> THEN 0 ELSE sign, digits |-> digits]

RECURSIVE DropLeadingZeros(_)
DropLeadingZeros(d) == IF d # <<>> /\ d[1] = 0 THEN DropLeadingZeros(Tail(d)) ELSE d

\* the magnitude spelled by a sequence of hexadecimal digits
HexValue(s) == DropLeadingZeros([i \in 1..Len(s) |-> DigitValue(s[i])])

\* the digits of an int literal after its sign and prefix: at least one
\* digit, and "_" only between two digits or, when a prefix was read, between
\* the prefix and a digit
DigitsWellFormed(body, hasPrefix) ==
    /\ body # <<>>
    /\ \A i \in 1..Len(body) :
          IF body[i] = 95
          THEN i < Len(body) /\ body[i + 1] # 95 /\ (i > 1 \/ hasPrefix)
          ELSE IsHexDigit(body[i])

\* the white space of ASCII, which int() drops around the literal it reads
AsciiSpace == (9..13) \cup {32}

RECURSIVE AsciiStrip(_)
AsciiStrip(s) ==
    IF s # <<>> /\ Head(s) \in AsciiSpace THEN AsciiStrip(Tail(s))
    ELSE IF s # <<>> /\ s[Len(s)] \in AsciiSpace THEN AsciiStrip(SubSeq(s, 1, Len(s) - 1))
    ELSE s

\* the sign of a literal, "+" when it has none, and what follows the sign
SplitSign(s) == IF s # <<>> /\ s[1] \in {43, 45} THEN <<s[1], Tail(s)>> ELSE <<43, s>>

\* the literal starts with "0x" or "0X", the prefix of base 16
HasPrefix16(u) == Len(u) >= 2 /\ u[1] = 48 /\ u[2] \in {120, 88}

\* int(q, 16): the characters read as ASCII, the white space around them
\* dropped, one sign, a prefix, then digits with single underscores; None
\* stands for ValueError
IntBase16(q) ==
    CHOOSE n \in
        {IF DigitsWellFormed(IF HasPrefix16(u) THEN SubSeq(u, 3, Len(u)) ELSE u,
                             HasPrefix16(u))
         THEN Some(PyInt(IF sg = 45 THEN -1 ELSE 1,
                         HexValue(SelectSeq(IF HasPrefix16(u) THEN SubSeq(u, 3, Len(u)) ELSE u,
                                            LAMBDA c : c # 95))))
         ELSE None :
            <<sg, u>> \in
                {SplitSign(s) : s \in {AsciiStrip([i \in 1..Len(q) |-> ToAscii(q[i])])}}} : TRUE

\* the prefix cut without looking: a mutation of the code
QuoteIdToCommitmentIntAlwaysCut(quote_id) ==
    CHOOSE n \in {IntBase16(SubSeq(q, 3, Len(q))) : q \in {Lower(Strip(quote_id))}} : TRUE

\* RhinoSwapModule._quote_id_to_commitment_int: q = quote_id.strip().lower(),
\* computed once, then the prefix dropped and int(q, 16)
QuoteIdToCommitmentInt(quote_id) ==
    CHOOSE n \in {IntBase16(IF StartsWith0x(q) THEN SubSeq(q, 3, Len(q)) ELSE q) :
                    q \in {Lower(Strip(quote_id))}} : TRUE

\* the chain keys of RhinoSwapModule
CHAIN_IN == Str(<<"O", "P", "B", "N", "B">>)
CHAIN_OUT == Str(<<"B", "I", "N", "A", "N", "C", "E">>)

-----------------------------------------------------------------------------
(* Amounts *)

\* int(Decimal(gas_price * conservative_gas) * safety_mul) with the
\* multiplier 1.20 instead of 1.25: a mutation of the code
FeeBufferSmallMargin(gas_price) == (gas_price * ConservativeGas * GasMulPct) \div 100

\* fee_buffer = int(Decimal(gas_price * conservative_gas) * safety_mul):
\* the product is exact in Decimal, int() truncates
FeeBuffer(gas_price) == (gas_price * ConservativeGas * SafetyMulPct) \div 100

\* RhinoSwapModule._calc_max_send_wei, after its two reads
CalcMaxSendWei(balance, gas_price) ==
    LET max_send == balance - FeeBuffer(gas_price)
    IN  IF max_send > 0 THEN max_send ELSE 0

\* A Decimal: coef * 10^exp
Dec(coef, exp) == [coef |-> coef, exp |-> exp]

RECURSIVE Pow10(_)
Pow10(n) == IF n = 0 THEN 1 ELSE 10 * Pow10(n - 1)

\* trailing zeros of the fraction dropped, at most -exp of them
RECURSIVE DropZeros(_)
DropZeros(d) ==
    IF d.exp < 0 /\ d.coef # 0 /\ d.coef % 10 = 0
    THEN DropZeros(Dec(d.coef \div 10, d.exp + 1))
    ELSE d

\* Decimal(self._w3.from_wei(max_send_wei, "ether")): the quotient by 10^18,
\* exact, with the exponent as close to 0 as the digits allow
FromWeiEther(wei) == IF wei = 0 THEN Dec(0, 0) ELSE DropZeros(Dec(wei, -18))

\* the number of units nearest to the float amount: what the 18 decimals of
\* f"{amount:.18f}" spell
RoundToUnits(amount) == IF amount >= 0 THEN amount \div 2 ELSE -((-amount) \div 2)

\* f"{amount:.18f}".rstrip("0").rstrip("."), read as a Decimal: the float is
\* rounded to 18 decimals, so a positive amount below half a unit gives "0"
FormatAmount(amount) ==
    IF RoundToUnits(amount) = 0 THEN Dec(0, 0) ELSE DropZeros(Dec(RoundToUnits(amount), -18))

\* int(self._w3.to_wei(Decimal(amount_str), "ether"))
ToWeiEther(d) == IF d.coef = 0 THEN 0 ELSE d.coef * Pow10(d.exp + 18)

-----------------------------------------------------------------------------
(* Accounts *)

GoodKey == "k1"
BadKey == "not-a-key"
Keys == {GoodKey, BadKey}

\* self._w3.eth.account.from_key(private_key) succeeds
KeyParses(key) == key = GoodKey

\* Web3.to_checksum_address(self._account.address)
AddressOf(key) == IF key = GoodKey THEN "0xA1" ELSE Absent

\* Web3.to_checksum_address(bridge_address) succeeds
IsAddress(a) == a = "0xB0"

-----------------------------------------------------------------------------
(* Answers of the bridge API (httpx responses) *)

\* raised: the request itself failed (timeout, connection error)
Response(raised, status, json, data) ==
    [raised |-> raised, status |-> status, json |-> json, data |-> data]

OkResponse(data) == Response(FALSE, 200, TRUE, data)

NoResponse == Response(FALSE, 0, FALSE, <<>>)

\* a failed request, a body that is not JSON, a JSON body with status 500
FailedResponses ==
    {Response(TRUE, 0, FALSE, <<>>), Response(FALSE, 200, FALSE, <<>>),
     Response(FALSE, 500, TRUE, <<>>)}

\* RhinoSwapModule._http after the request: the text of the error it raises,
\* "" when it returns data
HttpError(r) ==
    IF r.raised THEN "request failed"
    ELSE IF ~r.json THEN "Non-JSON response"
    ELSE IF r.status >= 400 THEN "HTTP error"
    ELSE ""

AuthData(token, jwt, accessToken, authorization) ==
    [token |-> token, jwt |-> jwt, accessToken |-> accessToken,
     authorization |-> authorization]

\* every auth body: each field missing, empty, or a token of its own
AllAuthData ==
    {AuthData(a, b, c, d) :
        a \in {Absent, "", "tok-token"}, b \in {Absent, "", "tok-jwt"},
        c \in {Absent, "", "tok-access"}, d \in {Absent, "", "tok-auth"}}

\* a token for every body: a mutation of the code
PickJwtAlways(data) ==
    IF Truthy(Or(Or(Or(data.token, data.jwt), data.accessToken), data.authorization))
    THEN Or(Or(Or(data.token, data.jwt), data.accessToken), data.authorization)
    ELSE "anonymous"

\* data.get("token") or data.get("jwt") or data.get("accessToken")
\*   or data.get("authorization")
PickJwt(data) == Or(Or(Or(data.token, data.jwt), data.accessToken), data.authorization)

\* one chain's entry of /bridge/configs; chainId 0 stands for a missing chainId
ChainCfg(chainId, contractAddress, nativeTokenName) ==
    [chainId |-> chainId, contractAddress |-> contractAddress,
     nativeTokenName |-> nativeTokenName]

OtherCfg == ChainCfg(56, "0xB1", "BNB")

ARBITRUM == Str(<<"A", "R", "B", "I", "T", "R", "U", "M">>)
ETHEREUM == Str(<<"E", "T", "H", "E", "R", "E", "U", "M">>)

ConfigsWith(cfg) == [k \in {CHAIN_IN, CHAIN_OUT} |-> IF k = CHAIN_IN THEN cfg ELSE OtherCfg]

ConfigsWithout == [k \in {ETHEREUM, CHAIN_OUT} |-> OtherCfg]

\* answers without the source chain: other chains, the source chain spelled
\* in lower case, a key that is the start of another, a key that is not
\* ASCII, the empty key
ConfigsOfOthers ==
    {[k \in K |-> OtherCfg] :
        K \in {{ARBITRUM, CHAIN_OUT},
               {Str(<<"P", "O", "L", "Y", "G", "O", "N">>), CHAIN_OUT},
               {Str(<<"Z", "K", "S", "Y", "N", "C">>), ARBITRUM, ETHEREUM, Str(<<"B", "A", "S", "E">>)},
               {Str(<<"b", "i", "n", "a", "n", "c", "e">>)},
               {CHAIN_OUT, Lower(CHAIN_IN), Str(<<"O", "P">>), Str(<<"O", "P", "B", "N", "B", "2">>)},
               {<<233, 116, 104>>, <<>>, Str(<<"_", "x">>), Str(<<"1", "0">>), Str(<<"9">>)}}}

EmptyConfigs == [k \in {} |-> OtherCfg]

GoodCfg == ChainCfg(204, "0xB0", "BNB")

AllChainCfgs ==
    {ChainCfg(i, a, n) :
        i \in {0, 204}, a \in {Absent, "0xB0", "bogus"}, n \in {Absent, "", "BNB", "ETH"}}

AllConfigs ==
    {ConfigsWith(c) : c \in AllChainCfgs} \cup {ConfigsWithout, EmptyConfigs}
    \cup ConfigsOfOthers

\* a < b for two str: the first character that differs decides, by its code
\* point; a str comes before those it starts
RECURSIVE StrLess(_, _)
StrLess(a, b) ==
    IF a = <<>> THEN b # <<>>
    ELSE IF b = <<>> THEN FALSE
    ELSE IF a[1] # b[1] THEN a[1] < b[1]
    ELSE StrLess(Tail(a), Tail(b))

\* sorted(S) for a set of str
RECURSIVE Sorted(_)
Sorted(S) ==
    IF S = {} THEN <<>>
    ELSE <<CHOOSE m \in S : \A k \in S : k = m \/ StrLess(m, k)>>
         \o Sorted(S \ {CHOOSE m \in S : \A k \in S : k = m \/ StrLess(m, k)})

\* ", ".join(sorted(configs.keys())), as the list of the keys: every key of
\* the answer, in sorted order
SortedKeys(configs) == Sorted(DOMAIN configs)

QuoteData(quoteId) == [quoteId |-> quoteId, payAmount |-> "1", receiveAmount |-> "1"]

CommitData(quoteId) == [quoteId |-> quoteId]

SeqsUpTo(S, n) == UNION {[1..k -> S] : k \in 1..n}

HexChars == {Ord("0"), Ord("2"), Ord("a"), Ord("A"), Ord("b"), Ord("B")}

Id0x2a == Str(<<"0", "x", "2", "a">>)

\* n times the character c
Repeat(c, n) == [i \in 1..n |-> c]

\* identifiers that are not plain hexadecimal: signs, underscores, a second
\* prefix, no digit
SignedIds ==
    {Str(s) : s \in
        {<<>>, <<"0", "x">>, <<"z">>, <<"+", "2", "a">>, <<"-", "2", "a">>,
         <<"0", "x", "-", "2", "a">>, <<"-", "0", "x", "2", "a">>, <<"a", "_", "b">>,
         <<"a", "_", "_", "b">>, <<"_", "a", "b">>, <<"a", "b", "_">>,
         <<"0", "x", "_", "2", "a">>, <<"0", "x", "0", "x", "2", "a">>,
         <<"0", "X", "0", "x", "_", "2", "a">>, <<"-">>, <<"-", "0">>, <<"g", "2">>,
         <<"0", "x", " ", "2", "a">>, <<"2", " ", "a">>, <<" ", "2", "a", " ">>}}

\* white space around or inside an identifier: of ASCII, the separators
\* U+001C and U+001F that only str.strip() drops, and others; digits of
\* other scripts (U+FF12 is the fullwidth 2, U+0663 the Arabic-Indic 3),
\* a capital sigma, the capital I with a dot
SpacedIds ==
    {<<9, 50, 97>>, <<50, 97, 10>>, <<11, 50, 97, 13, 12>>, <<28, 50, 97>>, <<50, 97, 31>>,
     <<48, 120, 28, 50, 97>>, <<133, 50, 97>>, <<160, 50, 97>>, <<8195, 50, 97, 12288>>,
     <<48, 120, 160, 50, 97>>, <<65298, 97>>, <<48, 120, 65298, 1635>>, <<65296, 120, 50, 97>>,
     <<65296, 88, 50, 97>>, <<97, 931>>, <<304>>, <<65313>>}

\* the largest identifier that fits 256 bits, of 64 digits, the smallest
\* that does not, of 65, and one of 70 digits that is small
LongIds ==
    {Repeat(Ord("f"), 64), <<Ord("1")>> \o Repeat(Ord("0"), 64),
     Str(<<"0", "x">>) \o Repeat(Ord("0"), 67) \o Str(<<"2", "a">>)}

OddIds == SignedIds \cup SpacedIds \cup LongIds

\* identifiers a commit may answer: hexadecimal in either case, with or
\* without the prefix, and the odd ones
CommitIds ==
    {p \o h : p \in {<<>>, Str(<<"0", "x">>), Str(<<"0", "X">>)},
              h \in SeqsUpTo(HexChars, MaxHexLen)}
    \cup OddIds

-----------------------------------------------------------------------------
(* The environment of one run *)

Opt(S) == {None} \cup {Some(x) : x \in S}

\* the node at its most varied, the bridge API answering or failing
ChainRemote ==
    [auth |-> {OkResponse(AuthData("tok-token", Absent, Absent, Absent))} \cup FailedResponses,
     configs |-> {OkResponse(ConfigsWith(GoodCfg))} \cup FailedResponses,
     chainId |-> {204},
     balance |-> Opt({0, 374999, 375000, 375001, 750000, 750001, 1200000}),
     gasPrice |-> Opt(0..MaxGasPrice),
     quote |-> {OkResponse(QuoteData("q1"))} \cup FailedResponses,
     commit |-> {OkResponse(CommitData(c)) :
                    c \in {Id0x2a, Str(<<"-", "2", "a">>), <<Ord("1")>> \o Repeat(Ord("0"), 64)}}
                \cup FailedResponses,
     estimate |-> Opt({21000, 100001}),
     nonce |-> Opt({7}),
     broadcast |-> Opt({"0xfeed", "beef"}),
     sink |-> BOOLEAN,
     python |-> "3.11"]

\* the bridge API at its most varied, the node answering
ApiRemote ==
    [auth |-> {OkResponse(d) : d \in AllAuthData} \cup FailedResponses,
     configs |-> {OkResponse(c) : c \in AllConfigs} \cup FailedResponses,
     chainId |-> {0, 204},
     balance |-> {Some(1200000)},
     gasPrice |-> {Some(1)},
     quote |-> {OkResponse(QuoteData(q)) : q \in {Absent, "", "q1"}} \cup FailedResponses,
     commit |-> {OkResponse(CommitData(c)) : c \in {<<>>, Id0x2a}}
                \cup FailedResponses,
     estimate |-> {Some(21000)},
     nonce |-> {Some(7)},
     broadcast |-> Opt({"0xfeed"}),
     sink |-> {TRUE},
     python |-> "3.11"]

-----------------------------------------------------------------------------
(* One safe_swap task.  pc names the await the task is suspended at:        *)
(*   queued          created, not run yet                                    *)
(*   waiting         async with semaphore: acquire() waits for a slot        *)
(*   sleep           asyncio.sleep(delay)                                    *)
(*   auth            _http POST /authentication/auth/apiKey                  *)
(*   configs         _http GET /bridge/configs                               *)
(*   balance         eth.get_balance          (_calc_max_send_wei)           *)
(*   gas_price       eth.gas_price            (_calc_max_send_wei)           *)
(*   quote           _http POST /bridge/quote/bridge-swap/user               *)
(*   commit          _http POST /bridge/quote/commit/<id>                    *)
(*   send_gas_price  eth.gas_price            (_send_native_deposit)         *)
(*   estimate        eth.estimate_gas                                        *)
(*   nonce           eth.get_transaction_count                               *)
(*   broadcast       sign and eth.send_raw_transaction                       *)
(*   export          file_operations.export_result                           *)
(*   cleanup         self._client.aclose()                                   *)
(*   done, raised    the task returned, or an exception left safe_swap       *)
(* calls lists the requests made on behalf of the task: those to the bridge *)
(* API when the task hands them to its HTTP client, those to the node when  *)
(* a worker thread makes them.  job is the node request of the function     *)
(* given to asyncio.to_thread, and thread tells how far it is:              *)
(*   none            no function is with the executor                        *)
(*   offloaded       the function is with the executor and has not asked     *)
(*                   the node yet                                            *)
(*   finished        it has returned or raised, the task has not run since   *)
(*   detached        the task was cancelled after a worker thread had taken  *)
(*                   the function, which goes on by itself                   *)
(***************************************************************************)

NewTask(key, delay, amount) ==
    [pc |-> "queued", key |-> key, delay |-> delay, amount |-> amount,
     built |-> FALSE, address |-> Absent,
     client |-> FALSE, cleanups |-> 0,
     jwt |-> Absent, configs |-> None, chain_id |-> 0, bridge_address |-> Absent,
     balance |-> 0, fee_gas_price |-> 0, max_send |-> None,
     amount_str |-> Dec(0, 0), quote_id |-> Absent,
     commitment_int |-> None, value_wei |-> 0,
     gas_price |-> 0, gas_est |-> None, gas_limit |-> 0, nonce |-> 0,
     calls |-> <<>>, resp |-> NoResponse, txs |-> <<>>, accepted |-> None,
     job |-> "", thread |-> "none",
     returned |-> FALSE, status |-> FALSE, result |-> [text |-> "", args |-> <<>>],
     exported |-> <<>>, exc |-> ""]

\* a request through _http: the client is created on first use
HttpCall(t, name, pc) ==
    [t EXCEPT !.client = TRUE, !.calls = Append(@, name), !.pc = pc]

\* await asyncio.to_thread(f): f, which asks the node for name, is handed to
\* the executor and the task waits for it
RpcCall(t, name, pc) == [t EXCEPT !.job = name, !.thread = "offloaded", !.pc = pc]

\* the task runs again with the outcome of f
Answered(t) == [t EXCEPT !.job = "", !.thread = "none"]

\* process_swap returns (status, text); safe_swap logs it and awaits
\* file_operations.export_result
Return(t, status, text, args) ==
    [t EXCEPT !.returned = TRUE, !.status = status,
              !.result = [text |-> text, args |-> args], !.pc = "export"]

\* except Exception as e: return False, str(e)
Fail(t, text, args) == Return(t, FALSE, text, args)

\* the explicit amount is rejected when negative only: a mutation of the code
AmountRejectedNegativeOnly(amount) == amount < 0

\* if amount <= 0: raise
AmountRejected(amount) == amount <= 0

\* no check of the source chain: a mutation of the code
ChainMissingNever(configs) == FALSE

\* if self.CHAIN_IN not in configs
ChainMissing(configs) == CHAIN_IN \notin DOMAIN configs

\* no check of the native token: a mutation of the code
TokenMismatchNever(native_token_name) == FALSE

\* if native_token_name and self.TOKEN_IN != native_token_name
TokenMismatch(native_token_name) ==
    Truthy(native_token_name) /\ TOKEN_IN # native_token_name

\* the product rounded up instead of truncated: a mutation of the code
GasLimitRoundedUp(gas_est) == (gas_est * GasMulPct + 99) \div 100

\* gas_limit = int(gas_est * 1.20)
GasLimitFromEstimate(gas_est) == (gas_est * GasMulPct) \div 100

\* the quote request, once amount_str is known (process_swap, lines 203-216)
RequestQuote(t, amount_str) ==
    HttpCall([t EXCEPT !.amount_str = amount_str], "quote", "quote")

\* process_swap up to its first await: _get_jwt finds no cached token and
\* posts the API key; delay is the time left to sleep
StartSwap(t) == HttpCall([t EXCEPT !.delay = 0], "auth", "auth")

\* module = RhinoSwapModule(...), then the body of safe_swap up to its first
\* await; a key that does not parse raises out of the constructor
EnterBody(t) ==
    IF ~KeyParses(t.key) THEN [t EXCEPT !.pc = "raised", !.exc = "InvalidKey"]
    ELSE LET m == [t EXCEPT !.built = TRUE, !.address = AddressOf(t.key)]
         IN  IF m.delay > 0 THEN [m EXCEPT !.pc = "sleep"] ELSE StartSwap(m)

\* _get_jwt after the answer, then _get_configs up to its request
AfterAuth(t, r) ==
    LET u == [t EXCEPT !.resp = r]
    IN  IF HttpError(r) # "" THEN Fail(u, HttpError(r), <<>>)
        ELSE IF ~Truthy(PickJwt(r.data)) THEN Fail(u, "Can't find JWT in response", <<>>)
        ELSE HttpCall([u EXCEPT !.jwt = PickJwt(r.data)], "configs", "configs")

\* process_swap from the configs answer to the next await (lines 169-216);
\* node_chain_id is what eth.chain_id answers when it is asked, 0 for an error
AfterConfigs(t, r, node_chain_id) ==
    LET u == IF HttpError(r) = "" THEN [t EXCEPT !.resp = r, !.configs = Some(r.data)]
             ELSE [t EXCEPT !.resp = r]
    IN  IF HttpError(r) # "" THEN Fail(u, HttpError(r), <<>>)
        ELSE IF ChainMissing(r.data)
        THEN Fail(u, "chainIn not found in configs. Available:", SortedKeys(r.data))
        ELSE IF CHAIN_IN \notin DOMAIN r.data THEN Fail(u, "KeyError", <<CHAIN_IN>>)
        ELSE
        LET cfg == r.data[CHAIN_IN]
            asked == cfg.chainId = 0
            v == IF asked THEN [u EXCEPT !.calls = Append(@, "chain_id")] ELSE u
            chain_id == IF asked THEN node_chain_id ELSE cfg.chainId
            w == [v EXCEPT !.chain_id = chain_id, !.bridge_address = cfg.contractAddress]
        IN  IF asked /\ node_chain_id = 0 THEN Fail(v, "chain_id failed", <<>>)
            ELSE IF ~Truthy(cfg.contractAddress) THEN Fail(w, "Missing contractAddress", <<>>)
            ELSE IF TokenMismatch(cfg.nativeTokenName)
            THEN Fail(w, "tokenIn != nativeTokenName", <<cfg.nativeTokenName>>)
            ELSE IF w.amount = None THEN RpcCall(w, "get_balance", "balance")
            ELSE IF AmountRejected(w.amount[1]) THEN Fail(w, "Amount must be > 0", <<>>)
            ELSE RequestQuote(w, FormatAmount(w.amount[1]))

\* _calc_max_send_wei after the balance
AfterBalance(t, b) ==
    IF b = None THEN Fail(t, "get_balance failed", <<>>)
    ELSE RpcCall([t EXCEPT !.balance = b[1]], "gas_price", "gas_price")

\* _calc_max_send_wei after the gas price, and process_swap lines 192-216
AfterGasPrice(t, g) ==
    IF g = None THEN Fail(t, "gas_price failed", <<>>)
    ELSE LET max_send_wei == CalcMaxSendWei(t.balance, g[1])
             u == [t EXCEPT !.fee_gas_price = g[1], !.max_send = Some(max_send_wei)]
         IN  IF max_send_wei <= 0 THEN Fail(u, "Not enough balance to pay gas + amount", <<>>)
             ELSE RequestQuote(u, FromWeiEther(max_send_wei))

\* the quote committed whether or not it carries an identifier: a mutation of
\* the code
AfterQuoteAnyId(t, r) ==
    LET u == [t EXCEPT !.resp = r]
    IN  IF HttpError(r) # "" THEN Fail(u, HttpError(r), <<>>)
        ELSE HttpCall([u EXCEPT !.quote_id = r.data.quoteId], "commit", "commit")

\* process_swap lines 217-232
AfterQuote(t, r) ==
    LET u == [t EXCEPT !.resp = r]
    IN  IF HttpError(r) # "" THEN Fail(u, HttpError(r), <<>>)
        ELSE IF ~Truthy(r.data.quoteId) THEN Fail(u, "Quote has no quoteId", <<>>)
        ELSE HttpCall([u EXCEPT !.quote_id = r.data.quoteId], "commit", "commit")

\* process_swap lines 233-245 and _send_native_deposit up to its first await
AfterCommit(t, r) ==
    LET u == [t EXCEPT !.resp = r]
    IN  IF HttpError(r) # "" THEN Fail(u, HttpError(r), <<>>)
        ELSE IF r.data.quoteId = <<>> THEN Fail(u, "Commit failed", <<>>)
        ELSE IF QuoteIdToCommitmentInt(r.data.quoteId) = None
        THEN Fail(u, "invalid literal for int() with base 16", <<>>)
        ELSE
        LET v == [u EXCEPT !.commitment_int = QuoteIdToCommitmentInt(r.data.quoteId),
                           !.value_wei = ToWeiEther(u.amount_str)]
        IN  IF ~IsAddress(v.bridge_address) THEN Fail(v, "invalid address", <<>>)
            ELSE RpcCall(v, "gas_price", "send_gas_price")

\* the argument fits uint256 commitmentId of BRIDGE_ABI, 0 <= n < 2^256, that
\* is at most 64 hexadecimal digits: web3 refuses to build a call of
\* depositNativeWithId with any other integer
Encodable(commitment_id_int) ==
    commitment_id_int.sign >= 0 /\ Len(commitment_id_int.digits) <= 64

\* _send_native_deposit after the gas price: _estimate is offloaded
AfterSendGasPrice(t, g) ==
    IF g = None THEN Fail(t, "gas_price failed", <<>>)
    ELSE RpcCall([t EXCEPT !.gas_price = g[1]], "estimate_gas", "estimate")

\* what _estimate_gas_native_deposit gives: the answer of the node, None when
\* it raises, as it does before any request when the call cannot be built
EstimateOutcomes(t, answers) == IF Encodable(t.commitment_int[1]) THEN answers ELSE {None}

\* an estimation that raises fails the deposit: a mutation of the code
AfterEstimateAborting(t, e) ==
    IF e = None THEN Fail(t, "estimate_gas failed", <<>>)
    ELSE RpcCall([t EXCEPT !.gas_est = e, !.gas_limit = GasLimitFromEstimate(e[1])],
                 "get_transaction_count", "nonce")

\* _send_native_deposit lines 141-147: an estimation that raises is replaced
\* by the fixed limit
AfterEstimate(t, e) ==
    LET gas_limit == IF e = None THEN ConservativeGas ELSE GasLimitFromEstimate(e[1])
    IN  RpcCall([t EXCEPT !.gas_est = e, !.gas_limit = gas_limit],
                "get_transaction_count", "nonce")

\* the transaction _build_sign_send builds
DepositTx(t) ==
    [to |-> t.bridge_address, fn |-> "depositNativeWithId", args |-> <<t.commitment_int[1]>>,
     from |-> t.address, value |-> t.value_wei, nonce |-> t.nonce,
     chainId |-> t.chain_id, gas |-> t.gas_limit, gasPrice |-> t.gas_price]

\* _send_native_deposit after the nonce: _build_sign_send is offloaded
AfterNonce(t, n) ==
    IF n = None THEN Fail(t, "get_transaction_count failed", <<>>)
    ELSE RpcCall([t EXCEPT !.nonce = n[1]], "send_raw_transaction", "broadcast")

\* the function asks the node: _estimate and _build_sign_send first build
\* the call of depositNativeWithId, and raise there when it cannot be built
JobAsksNode(t) ==
    t.job \notin {"estimate_gas", "send_raw_transaction"} \/ Encodable(t.commitment_int[1])

\* a worker thread runs the function to its end: the request is made of the
\* node, and _build_sign_send has built and signed the transaction it sends.
\* The outcome is for the task, unless the task was cancelled meanwhile
ThreadRun(t) ==
    [t EXCEPT !.calls = IF JobAsksNode(t) THEN Append(@, t.job) ELSE @,
              !.txs = IF t.job = "send_raw_transaction" /\ JobAsksNode(t)
                      THEN Append(@, DepositTx(t)) ELSE @,
              !.thread = IF t.thread = "detached" THEN "none" ELSE "finished",
              !.job = IF t.thread = "detached" THEN "" ELSE @]

\* what _build_sign_send gives: the answer of the node, None when it raises
BroadcastOutcomes(t, answers) == IF Encodable(t.commitment_int[1]) THEN answers ELSE {None}

\* a rejected broadcast tried a second time: a mutation of the code
AfterBroadcastRetry(t, h) ==
    IF h = None /\ Len(t.txs) < 2
    THEN RpcCall(t, "send_raw_transaction", "broadcast")
    ELSE IF h = None
    THEN Fail([t EXCEPT !.accepted = h], "send_raw_transaction failed", <<>>)
    ELSE Return([t EXCEPT !.accepted = h], TRUE, h[1], <<>>)

\* a rejected broadcast still reported as a success: a mutation of the code
AfterBroadcastAlwaysTrue(t, h) ==
    IF h = None THEN Return([t EXCEPT !.accepted = h], TRUE, "send_raw_transaction failed", <<>>)
    ELSE Return([t EXCEPT !.accepted = h], TRUE, h[1], <<>>)

\* process_swap lines 247-250; accepted is the answer of the node, None when
\* it rejects the transaction
AfterBroadcast(t, h) ==
    IF ~Encodable(t.commitment_int[1])
    THEN Fail([t EXCEPT !.accepted = h], "Could not identify the intended function", <<>>)
    ELSE IF h = None
    THEN Fail([t EXCEPT !.accepted = h], "send_raw_transaction failed", <<>>)
    ELSE Return([t EXCEPT !.accepted = h], TRUE, h[1], <<>>)

\* the record of a success whatever the outcome: a mutation of the code
ResultRecordAlwaysSuccess(t) ==
    [address |-> t.address, status |-> TRUE, module |-> "rhino_bridge"]

\* the record export_result is given
ResultRecord(t) == [address |-> t.address, status |-> t.status, module |-> "rhino_bridge"]

\* safe_swap line 41 answered, then the finally block up to its await:
\* module.cleanup() awaits aclose when there is a client
AfterExport(t, ok) ==
    LET u == IF ok THEN [t EXCEPT !.exported = Append(@, ResultRecord(t))]
             ELSE [t EXCEPT !.exc = "export_result failed"]
        v == [u EXCEPT !.cleanups = @ + 1]
    IN  IF v.client THEN [v EXCEPT !.pc = "cleanup"]
        ELSE [v EXCEPT !.pc = IF v.exc = "" THEN "done" ELSE "raised"]

\* self._client = None
ClientAfterClose(client) == FALSE

\* cleanup after aclose, the end of the finally block and of the
\* "async with": the exception of the body, if any, leaves safe_swap
AfterClose(t) ==
    [t EXCEPT !.client = ClientAfterClose(@), !.pc = IF t.exc = "" THEN "done" ELSE "raised"]

-----------------------------------------------------------------------------
(* The state machine *)

Tasks == DOMAIN task

Terminal(t) == t.pc \in {"done", "raised"}

\* the positions inside "async with semaphore"
BodyPcs ==
    {"sleep", "auth", "configs", "balance", "gas_price", "quote", "commit",
     "send_gas_price", "estimate", "nonce", "broadcast", "export", "cleanup"}

\* delay_before_start as configured: PositiveIntRange holds min and max and
\* does not order them
DelayRanges == {[min |-> a, max |-> b] : a \in 0..(MaxDelay + 1), b \in 0..MaxDelay}

\* random.randint(min, max) if max > 0 else 0: the values it may draw; none
\* when min > max, where randint raises ValueError
Delays(range) == IF range.max > 0 THEN range.min..range.max ELSE {0}

\* loader.semaphore: a counting semaphore created with the configured number
\* of threads
SemaphoreCapacity == NThreads

\* the interpreters the program runs on, named by the asyncio.Semaphore they
\* carry: "3.9" for CPython 3.9, where release() wakes the first waiter and
\* sets _wakeup_scheduled; "3.11" for the later ones where release() hands the
\* slot to the first waiter and acquire() wakes one more after its wait;
\* "3.13" for those where acquire() wakes waiters while the counter allows
Pythons == {"3.9", "3.11", "3.13"}

\* asyncio.Semaphore(capacity): _value; _waiters, the tasks whose future is in
\* the queue, in the order of arrival; granted, the tasks whose future has a
\* result and that have not run since; cancelled, the tasks whose future is
\* cancelled and still in the queue; wakeup, _wakeup_scheduled of CPython 3.9
NewSemaphore ==
    [value |-> SemaphoreCapacity, waiters |-> <<>>, granted |-> {}, cancelled |-> {},
     wakeup |-> FALSE]

\* what acquire() tests before it waits: "self._wakeup_scheduled or
\* self._value <= 0" in CPython 3.9, locked() later: the counter is zero or a
\* waiter is not cancelled
SemaphoreLocked(s, python) ==
    IF python = "3.9" THEN s.wakeup \/ s.value <= 0
    ELSE s.value = 0 \/ \E i \in 1..Len(s.waiters) : s.waiters[i] \notin s.cancelled

Remove(q, w) == SelectSeq(q, LAMBDA v : v # w)

\* the waiters whose future is not done, in the order of arrival
Pending(s) == SelectSeq(s.waiters, LAMBDA v : v \notin s.granted \cup s.cancelled)

\* the waiters behind w
RECURSIVE Behind(_, _)
Behind(q, w) == IF q = <<>> THEN <<>> ELSE IF Head(q) = w THEN Tail(q) ELSE Behind(Tail(q), w)

\* Semaphore._wake_up_next.  CPython 3.9 takes the waiters out of the queue
\* up to the first whose future is not done, which it wakes, the counter left
\* as it is; later ones give the slot to the first waiter whose future is
\* not done, which stays in the queue until it runs
WakeUpNext(s, python) ==
    IF python = "3.9"
    THEN IF Pending(s) = <<>> THEN [s EXCEPT !.waiters = <<>>, !.cancelled = {}]
         ELSE [s EXCEPT !.waiters = Behind(@, Head(Pending(s))),
                        !.cancelled = @ \cap Range(Behind(s.waiters, Head(Pending(s)))),
                        !.granted = @ \cup {Head(Pending(s))},
                        !.wakeup = TRUE]
    ELSE IF Pending(s) = <<>> THEN s
         ELSE [s EXCEPT !.value = @ - 1, !.granted = @ \cup {Head(Pending(s))}]

\* Semaphore.release()
Release(s, python) == WakeUpNext([s EXCEPT !.value = @ + 1], python)

\* "while self._value > 0: if not self._wake_up_next(): break"
RECURSIVE WakeWhileFree(_)
WakeWhileFree(s) ==
    IF s.value > 0 /\ Pending(s) # <<>> THEN WakeWhileFree(WakeUpNext(s, "3.13")) ELSE s

\* acquire() of task w resumed by the result of its future, up to the test
\* that follows: CPython 3.9 resets _wakeup_scheduled; later ones take the
\* future out of the queue and wake whom the counter allows
Resumed(s, w, python) ==
    IF python = "3.9" THEN [s EXCEPT !.granted = @ \ {w}, !.wakeup = FALSE]
    ELSE LET u == [s EXCEPT !.waiters = Remove(@, w), !.granted = @ \ {w}]
         IN  IF python = "3.13" THEN WakeWhileFree(u)
             ELSE IF u.value > 0 THEN WakeUpNext(u, python) ELSE u

\* acquire() left by CancelledError while task w waited.  CPython 3.9 wakes
\* the next waiter; later ones take the future out of the queue and give
\* back a slot already granted to w
AcquireCancelled(s, w, python) ==
    IF python = "3.9" THEN WakeUpNext([s EXCEPT !.granted = @ \ {w}], python)
    ELSE LET u == [s EXCEPT !.waiters = Remove(@, w), !.granted = @ \ {w},
                            !.cancelled = @ \ {w},
                            !.value = IF w \in s.granted THEN @ + 1 ELSE @]
         IN  IF python = "3.13" THEN WakeWhileFree(u)
             ELSE IF w \in s.granted THEN WakeUpNext(u, python) ELSE u

\* task.cancel() of every task of W: the future a task waits on is cancelled
\* unless it has a result
CancelWaiters(s, W) ==
    [s EXCEPT !.cancelled = @ \cup {w \in W \cap Range(s.waiters) : w \notin s.granted}]

\* the environment of a batch: the bridge API may refuse the key and the node
\* may reject the transaction
BatchRemote ==
    [auth |-> {OkResponse(AuthData("tok-token", Absent, Absent, Absent)),
               Response(FALSE, 500, TRUE, <<>>)},
     configs |-> {OkResponse(ConfigsWith(GoodCfg))},
     chainId |-> {204},
     balance |-> Opt({1200000}) \ {None},
     gasPrice |-> Opt({1}) \ {None},
     quote |-> {OkResponse(QuoteData("q1"))},
     commit |-> {OkResponse(CommitData(Id0x2a))},
     estimate |-> Opt({21000}) \ {None},
     nonce |-> Opt({7}) \ {None},
     broadcast |-> Opt({"0xfeed"}),
     sink |-> {TRUE},
     python |-> "3.11"]

\* the environment of a batch, the commit answering any identifier
CommitRemote ==
    [BatchRemote EXCEPT
        !.commit = {OkResponse(CommitData(c)) : c \in CommitIds} \cup FailedResponses]

Init ==
    /\ wallets \in {<<>>} \cup SeqsUpTo(Keys, MaxWallets)
    /\ remote \in {[BatchRemote EXCEPT !.python = p] : p \in Pythons}
    /\ orch = "idle"
    /\ sem = NewSemaphore
    /\ holders = {}
    /\ task = <<>>

\* Bot.process_swaps up to "await asyncio.gather(*tasks)": one task per wallet,
\* each with its own delay, amount left to its default None; the draw of the
\* first delay raises when the range is empty, before any task is created
ProcessSwaps ==
    /\ orch = "idle"
    /\ \E range \in DelayRanges :
          IF wallets # <<>> /\ Delays(range) = {}
          THEN orch' = "raised" /\ UNCHANGED task
          ELSE /\ \E d \in [1..Len(wallets) -> Delays(range)] :
                    task' = [i \in 1..Len(wallets) |-> NewTask(wallets[i], d[i], None)]
               /\ orch' = "gathering"
    /\ UNCHANGED <<wallets, remote, sem, holders>>

\* the event loop runs the first step of every task, in the order of their
\* creation, before anything else that became ready
AllStarted == \A w \in Tasks : task[w].pc # "queued"

\* asyncio.gather without return_exceptions: the first exception of a task is
\* raised to the awaiter at once, the other tasks are left running
GatherRaises ==
    /\ orch = "gathering"
    /\ AllStarted
    /\ \E w \in Tasks : task[w].pc = "raised"
    /\ orch' = "raised"
    /\ UNCHANGED <<wallets, remote, sem, holders, task>>

\* gather returns when every task has returned
GatherReturns ==
    /\ orch = "gathering"
    /\ \A w \in Tasks : task[w].pc = "done"
    /\ orch' = "returned"
    /\ UNCHANGED <<wallets, remote, sem, holders, task>>

\* ApplicationManager.run: "while True", the next batch after input()
RunAgain ==
    /\ orch = "returned"
    /\ orch' = "idle"
    /\ task' = <<>>
    /\ UNCHANGED <<wallets, remote, sem, holders>>

\* the exception leaves process_swaps and ApplicationManager.run, which does
\* not catch it.  Run by asyncio.run, the tasks still pending are cancelled,
\* all at once, and the loop runs until they are over
CancelAllTasks ==
    /\ orch = "raised"
    /\ orch' = "cancelled"
    /\ sem' = CancelWaiters(sem, {w \in Tasks : task[w].pc = "waiting"})
    /\ UNCHANGED <<wallets, remote, holders, task>>

\* run by loop.run_until_complete, the loop stops and the tasks still
\* pending stay where they are
LoopStops ==
    /\ orch = "raised"
    /\ orch' = "stopped"
    /\ UNCHANGED <<wallets, remote, sem, holders, task>>

\* the task can be resumed: the loop runs, every first step is over, and a
\* task that asyncio.run has cancelled runs again only once the
\* CancelledError has been thrown into it
Runnable(w) ==
    /\ orch # "stopped"
    /\ AllStarted
    /\ orch = "cancelled" => task[w].exc = "CancelledError"

\* the task leaves "async with semaphore": release()
Leave(w, t) ==
    /\ task' = [task EXCEPT ![w] = t]
    /\ sem' = Release(sem, remote.python)
    /\ holders' = holders \ {w}
    /\ UNCHANGED <<wallets, remote, orch>>

\* a step of the body of safe_swap, the semaphore held throughout
Step(w, t) ==
    /\ task' = [task EXCEPT ![w] = t]
    /\ UNCHANGED <<wallets, remote, orch, sem, holders>>

\* acquire() returned with the semaphore in state s: the body runs to its
\* first await; when the constructor raises, the semaphore is released on
\* the way out
Acquired(w, s) ==
    /\ LET t == EnterBody(task[w])
       IN  /\ task' = [task EXCEPT ![w] = t]
           /\ IF t.pc = "raised"
              THEN sem' = Release(s, remote.python) /\ UNCHANGED holders
              ELSE sem' = s /\ holders' = holders \cup {w}
    /\ UNCHANGED <<wallets, remote, orch>>

\* the first step of the task: "async with semaphore" is entered when the
\* semaphore is not locked, otherwise the task joins the waiters
Enter(w) ==
    /\ task[w].pc = "queued"
    /\ \A v \in 1..(w - 1) : task[v].pc # "queued"
    /\ IF SemaphoreLocked(sem, remote.python)
       THEN /\ task' = [task EXCEPT ![w].pc = "waiting"]
            /\ sem' = [sem EXCEPT !.waiters = Append(@, w)]
            /\ UNCHANGED <<wallets, remote, orch, holders>>
       ELSE Acquired(w, [sem EXCEPT !.value = @ - 1])

\* a woken waiter runs again.  In CPython 3.9 it tests the counter again
\* and takes the slot, or waits again behind the others; later the slot is
\* already its own
Resume(w) ==
    /\ task[w].pc = "waiting"
    /\ w \in sem.granted
    /\ Runnable(w)
    /\ IF remote.python = "3.9" /\ sem.value <= 0
       THEN /\ sem' = [Resumed(sem, w, remote.python) EXCEPT !.waiters = Append(@, w)]
            /\ UNCHANGED <<wallets, remote, orch, holders, task>>
       ELSE IF remote.python = "3.9"
       THEN Acquired(w, [Resumed(sem, w, remote.python) EXCEPT !.value = @ - 1])
       ELSE Acquired(w, Resumed(sem, w, remote.python))

\* CancelledError thrown into the body at its await: process_swap does not
\* catch it (except Exception), export_result is not called, the finally
\* block runs cleanup.  Thrown into export_result, the record is written or
\* not; thrown into aclose, _client is left as it is.  A function still
\* with the executor is dropped from its queue, or a worker thread has taken
\* it and goes on; the outcome of one that finished is lost
CancelledAt(t, under_way) ==
    IF t.pc = "cleanup" THEN [t EXCEPT !.exc = "CancelledError", !.pc = "raised"]
    ELSE LET u == [t EXCEPT !.exc = "CancelledError", !.cleanups = @ + 1,
                            !.exported = IF t.pc = "export" /\ under_way
                                         THEN Append(@, ResultRecord(t)) ELSE @,
                            !.thread = IF @ = "offloaded" /\ under_way
                                       THEN "detached" ELSE "none",
                            !.job = IF t.thread = "offloaded" /\ under_way
                                    THEN @ ELSE ""]
         IN  [u EXCEPT !.pc = IF u.client THEN "cleanup" ELSE "raised"]

\* a task cancelled by asyncio.run runs for the first time since
Cancelled(w) ==
    /\ orch = "cancelled"
    /\ ~Terminal(task[w])
    /\ task[w].exc # "CancelledError"
    /\ IF task[w].pc = "waiting"
       THEN /\ task' = [task EXCEPT ![w].pc = "raised", ![w].exc = "CancelledError"]
            /\ sem' = AcquireCancelled(sem, w, remote.python)
            /\ UNCHANGED <<wallets, remote, orch, holders>>
       ELSE \E under_way \in BOOLEAN :
               LET t == CancelledAt(task[w], under_way)
               IN  IF Terminal(t) THEN Leave(w, t) ELSE Step(w, t)

\* a worker thread of the executor runs the function handed to it; the
\* threads run beside the event loop and outlive a cancelled task
ThreadRuns(w) ==
    /\ task[w].thread \in {"offloaded", "detached"}
    /\ Step(w, ThreadRun(task[w]))

Wake(w) ==
    /\ task[w].pc = "sleep"
    /\ Step(w, StartSwap(task[w]))

AuthResp(w) ==
    /\ task[w].pc = "auth"
    /\ \E r \in remote.auth : Step(w, AfterAuth(task[w], r))

ConfigsResp(w) ==
    /\ task[w].pc = "configs"
    /\ \E r \in remote.configs, c \in remote.chainId : Step(w, AfterConfigs(task[w], r, c))

BalanceResp(w) ==
    /\ task[w].pc = "balance"
    /\ task[w].thread = "finished"
    /\ \E b \in remote.balance : Step(w, AfterBalance(Answered(task[w]), b))

GasPriceResp(w) ==
    /\ task[w].pc = "gas_price"
    /\ task[w].thread = "finished"
    /\ \E g \in remote.gasPrice : Step(w, AfterGasPrice(Answered(task[w]), g))

QuoteResp(w) ==
    /\ task[w].pc = "quote"
    /\ \E r \in remote.quote : Step(w, AfterQuote(task[w], r))

CommitResp(w) ==
    /\ task[w].pc = "commit"
    /\ \E r \in remote.commit : Step(w, AfterCommit(task[w], r))

SendGasPriceResp(w) ==
    /\ task[w].pc = "send_gas_price"
    /\ task[w].thread = "finished"
    /\ \E g \in remote.gasPrice : Step(w, AfterSendGasPrice(Answered(task[w]), g))

EstimateResp(w) ==
    /\ task[w].pc = "estimate"
    /\ task[w].thread = "finished"
    /\ \E e \in EstimateOutcomes(task[w], remote.estimate) :
          Step(w, AfterEstimate(Answered(task[w]), e))

NonceResp(w) ==
    /\ task[w].pc = "nonce"
    /\ task[w].thread = "finished"
    /\ \E n \in remote.nonce : Step(w, AfterNonce(Answered(task[w]), n))

BroadcastResp(w) ==
    /\ task[w].pc = "broadcast"
    /\ task[w].thread = "finished"
    /\ \E h \in BroadcastOutcomes(task[w], remote.broadcast) :
          Step(w, AfterBroadcast(Answered(task[w]), h))

ExportResp(w) ==
    /\ task[w].pc = "export"
    /\ \E ok \in remote.sink :
          LET t == AfterExport(task[w], ok)
          IN  IF Terminal(t) THEN Leave(w, t) ELSE Step(w, t)

CloseDone(w) ==
    /\ task[w].pc = "cleanup"
    /\ Leave(w, AfterClose(task[w]))

\* one step of one task
TaskStep(w) ==
    \/ Enter(w)
    \/ /\ Runnable(w)
       /\ \/ Wake(w)
          \/ AuthResp(w)
          \/ ConfigsResp(w)
          \/ BalanceResp(w)
          \/ GasPriceResp(w)
          \/ QuoteResp(w)
          \/ CommitResp(w)
          \/ SendGasPriceResp(w)
          \/ EstimateResp(w)
          \/ NonceResp(w)
          \/ BroadcastResp(w)
          \/ ExportResp(w)
          \/ CloseDone(w)

\* the steps the event loop takes by itself
Progress ==
    \/ ProcessSwaps
    \/ GatherRaises
    \/ GatherReturns
    \/ CancelAllTasks
    \/ LoopStops
    \/ \E w \in Tasks : TaskStep(w)
    \/ \E w \in Tasks : Resume(w)
    \/ \E w \in Tasks : Cancelled(w)
    \/ \E w \in Tasks : ThreadRuns(w)

Next == Progress \/ RunAgain

Spec == Init /\ [][Next]_vars

\* the event loop does not stop while a step is possible: it runs a task that
\* is ready, process_swaps included, every sleep ends, every network call
\* returns or fails, and a release of the semaphore wakes a waiting task.
\* The next batch waits for the user at input(): it may never come
Fairness == WF_vars(Progress)

SpecFair == Spec /\ Fairness
-----------------------------------------------------------------------------
(* One call of Bot.safe_swap(delay, private_key, rpc_url, amount) by a       *)
(* caller that awaits it directly                                           *)

\* the amounts a caller passes: None, or a float named by its half unit:
\* negative, 0.0, below half a unit, between half a unit and one, just above
\* one, and larger ones
Amounts == Opt({-1, 0, 1, 2, 3, 10, 4000})

InitCall(answers, amounts) ==
    /\ wallets \in {<<k>> : k \in Keys}
    /\ remote = answers
    /\ orch = "direct"
    /\ sem = NewSemaphore
    /\ holders = {}
    /\ \E d \in 0..MaxDelay, a \in amounts : task = <<NewTask(wallets[1], d, a)>>

NextSwap == \E w \in Tasks : TaskStep(w) \/ ThreadRuns(w)

\* any amount, against every answer of the node
InitSwap == InitCall(ChainRemote, Amounts)

SpecSwap == InitSwap /\ [][NextSwap]_vars

\* the maximum available or a float below half a unit, against every answer
\* of the bridge API
InitApi == InitCall(ApiRemote, {None, Some(1)})

SpecApi == InitApi /\ [][NextSwap]_vars

\* the maximum available, against every identifier a commit may answer
InitCommit == InitCall(CommitRemote, {None})

SpecCommit == InitCommit /\ [][NextSwap]_vars

-----------------------------------------------------------------------------
(* Properties *)

Max(a, b) == IF a >= b THEN a ELSE b

\* ceil(a / b) for b > 0
CeilDiv(a, b) == -((-a) \div b)

RECURSIVE CountRecords(_)
CountRecords(n) == IF n = 0 THEN 0 ELSE CountRecords(n - 1) + Len(task[n].exported)

\* the records the result sink has received
NumRecords == CountRecords(Len(task))

\* at no instant do more than N tasks hold the semaphore, the counter tells
\* the free slots, and a task that is sleeping, waiting for the bridge API or
\* for the node, exporting its result or closing its client holds it
HoldersBound ==
    /\ Cardinality(holders) <= NThreads
    /\ sem.value = NThreads - Cardinality(holders)
                   - (IF remote.python = "3.9" THEN 0 ELSE Cardinality(sem.granted))
    /\ sem.value >= 0
    /\ \A w \in Tasks : task[w].pc \in BodyPcs => w \in holders
    /\ \A w \in holders : task[w].pc \in BodyPcs

\* C1: at no instant do more than N tasks hold the semaphore, and no unit
\* performs its delay, a call of the bridge API or a call of the node without
\* holding it: a function that is to ask the node runs for a task that holds
\* the semaphore.
C1_SemaphoreBound ==
    /\ HoldersBound
    /\ \A w \in Tasks : task[w].thread \in {"offloaded", "detached"} => w \in holders

\* C2: when process_swaps finishes a batch whose tasks were created, the sink
\* has received exactly one record for every wallet of config.wallets,
\* whatever the outcome of the wallet.
C2_OneRecordPerWallet ==
    orch \in {"returned", "raised", "cancelled", "stopped"} /\ Len(task) = Len(wallets) =>
        /\ NumRecords = Len(wallets)
        /\ \A w \in Tasks : Len(task[w].exported) = 1

\* C3: no failure in a wallet's unit aborts the orchestrator or cancels a
\* sibling: once the tasks are created process_swaps does not raise, no unit
\* is cancelled, and it returns only after every unit has terminated.
C3_OrchestratorNeverAborts ==
    /\ orch \in {"raised", "cancelled", "stopped"} => task = <<>>
    /\ \A w \in Tasks : task[w].exc # "CancelledError"
    /\ orch = "returned" => \A w \in Tasks : Terminal(task[w])

\* C4: on every exit path of a unit whose module was built (success, failure
\* at any step, an exception raised in the unit after that) the HTTP client
\* is closed and cleanup ran exactly once; it never runs twice, and a unit
\* whose constructor raised has no client to close.
C4_ClientClosedOnExit ==
    \A w \in Tasks :
        /\ task[w].cleanups <= 1
        /\ Terminal(task[w]) =>
              /\ ~task[w].client
              /\ task[w].cleanups = IF task[w].built THEN 1 ELSE 0
        /\ task[w].client => task[w].built /\ task[w].cleanups <= 1 /\ w \in holders

\* the requests that follow the resolution of the amount
AfterAmountCalls ==
    {"get_balance", "gas_price", "quote", "commit", "estimate_gas",
     "get_transaction_count", "send_raw_transaction"}

ExplicitNonPositive(t) == t.amount # None /\ t.amount[1] <= 0

\* C5 as stated: for an explicit amount <= 0 the workflow ends in failure and
\* no network call of any kind has been issued before the amount is rejected.
C5_NoCallBeforeAmountFailure ==
    \A w \in Tasks :
        ExplicitNonPositive(task[w]) /\ task[w].returned =>
            /\ ~task[w].status
            /\ task[w].result.text = "Amount must be > 0" => task[w].calls = <<>>

\* C5 amended: for an explicit amount <= 0 the workflow ends in failure and
\* no balance or gas-price read, quote, commit, gas estimation, nonce read or
\* broadcast is ever issued; the auth request and the config fetch are
\* issued before the amount is checked.
C5_NoCallAfterAmountFailure ==
    \A w \in Tasks :
        ExplicitNonPositive(task[w]) =>
            /\ Range(task[w].calls) \cap AfterAmountCalls = {}
            /\ task[w].txs = <<>>
            /\ task[w].returned => ~task[w].status
            /\ task[w].returned /\ task[w].result.text = "Amount must be > 0" =>
                  SubSeq(task[w].calls, 1, 2) = <<"auth", "configs">>

\* the amount 0 rejected after the config was fetched
C5_Witness ==
    \E w \in Tasks :
        /\ task[w].amount = Some(0)
        /\ task[w].pc = "done"
        /\ task[w].result.text = "Amount must be > 0"
        /\ task[w].calls = <<"auth", "configs">>

\* C6: when the fetched route config has no entry for the source chain, the
\* workflow returns a failure that lists the available chain keys, and no
\* quote, commit or deposit is ever sent.
C6_MissingChainFailsBeforeQuote ==
    \A w \in Tasks :
        task[w].configs # None /\ CHAIN_IN \notin DOMAIN task[w].configs[1] =>
            /\ task[w].returned /\ ~task[w].status
            /\ task[w].result.text = "chainIn not found in configs. Available:"
            /\ Range(task[w].result.args) = DOMAIN task[w].configs[1]
            /\ Len(task[w].result.args) = Cardinality(DOMAIN task[w].configs[1])
            /\ \A i \in 1..(Len(task[w].result.args) - 1) :
                  StrLess(task[w].result.args[i], task[w].result.args[i + 1])
            /\ Range(task[w].calls) \subseteq {"auth", "configs"}
            /\ task[w].txs = <<>>

\* a config with four other chains, the unit finished
C6_Witness ==
    \E w \in Tasks :
        /\ task[w].pc = "done"
        /\ task[w].configs # None
        /\ Cardinality(DOMAIN task[w].configs[1]) = 4
        /\ task[w].result.args =
              <<ARBITRUM, Str(<<"B", "A", "S", "E">>), ETHEREUM,
                Str(<<"Z", "K", "S", "Y", "N", "C">>)>>

\* the recognized token fields, in the order they are tried
TokenFields == <<"token", "jwt", "accessToken", "authorization">>

\* the fields of an auth body that carry a token
TokensIn(data) == {i \in 1..Len(TokenFields) : data[TokenFields[i]] \notin {Absent, ""}}

\* the auth answer is the last answer received and has been processed
AuthAnswered(t) ==
    /\ t.pc # "auth"
    /\ t.calls # <<>>
    /\ t.calls[Len(t.calls)] \in {"auth", "configs"}
    /\ t.pc = "configs" \/ t.calls = <<"auth">>
    /\ HttpError(t.resp) = ""

\* C7: an auth answer with none of the token fields makes authentication
\* fail: no token is cached and the workflow ends in failure before any quote
\* request; otherwise the token of the first field that carries one is cached.
C7_NoTokenFailsBeforeQuote ==
    \A w \in Tasks :
        /\ AuthAnswered(task[w]) /\ TokensIn(task[w].resp.data) = {} =>
              /\ task[w].returned /\ ~task[w].status
              /\ task[w].result.text = "Can't find JWT in response"
              /\ task[w].jwt = Absent
              /\ task[w].calls = <<"auth">>
        /\ AuthAnswered(task[w]) /\ TokensIn(task[w].resp.data) # {} =>
              /\ task[w].pc = "configs"
              /\ \E i \in TokensIn(task[w].resp.data) :
                    /\ \A j \in TokensIn(task[w].resp.data) : i <= j
                    /\ task[w].jwt = task[w].resp.data[TokenFields[i]]
        /\ task[w].jwt = Absent => Range(task[w].calls) \subseteq {"auth"}

\* an auth answer without any of the four fields, the unit finished
C7_Witness ==
    \E w \in Tasks :
        /\ task[w].pc = "done"
        /\ AuthAnswered(task[w])
        /\ task[w].resp.data = AuthData(Absent, Absent, Absent, Absent)

\* C8: _calc_max_send_wei returns max(balance - ceil(g * 300000 * 1.25), 0),
\* and when that is not positive the workflow fails for lack of balance and
\* sends no quote request.
C8_MaxSendAndInsufficientBalance ==
    \A w \in Tasks :
        task[w].max_send # None =>
            LET g == task[w].fee_gas_price
                feeBuffer == CeilDiv(g * 300000 * 125, 100)
            IN  /\ task[w].max_send[1] = Max(task[w].balance - feeBuffer, 0)
                /\ task[w].max_send[1] <= 0 =>
                      /\ task[w].returned /\ ~task[w].status
                      /\ task[w].result.text = "Not enough balance to pay gas + amount"
                      /\ "quote" \notin Range(task[w].calls)
                /\ task[w].max_send[1] > 0 => "quote" \in Range(task[w].calls)

\* a positive balance below the fee buffer: the result is clamped to 0
C8_Witness ==
    \E w \in Tasks :
        /\ task[w].max_send = Some(0)
        /\ task[w].fee_gas_price > 0
        /\ task[w].balance > 0
        /\ task[w].balance < task[w].fee_gas_price * 375000
        /\ task[w].pc = "done"

\* the value of a character as a hexadecimal digit, in either case
HexDigitOf(c) ==
    CASE c = Ord("0") -> 0 [] c = Ord("1") -> 1 [] c = Ord("2") -> 2
      [] c \in {Ord("a"), Ord("A")} -> 10 [] c \in {Ord("b"), Ord("B")} -> 11
      [] c \in {Ord("f"), Ord("F")} -> 15

RECURSIVE Base16(_)
Base16(h) == IF h = <<>> THEN 0 ELSE 16 * Base16(SubSeq(h, 1, Len(h) - 1)) + HexDigitOf(h[Len(h)])

\* the hexadecimal digits of a natural number, the first one not 0
RECURSIVE HexDigitsOf(_)
HexDigitsOf(n) == IF n = 0 THEN <<>> ELSE Append(HexDigitsOf(n \div 16), n % 16)

\* the Python int of a natural number
IntOf(n) == PyInt(1, HexDigitsOf(n))

\* the Python int of a hexadecimal string of any length whose first digit is
\* not 0
IntOfHex(h) == PyInt(1, [i \in 1..Len(h) |-> HexDigitOf(h[i])])

\* hexadecimal strings whose value is 2^256 - 1 and 2^256
LongHex == {Repeat(Ord("f"), 64), <<Ord("1")>> \o Repeat(Ord("0"), 64)}

\* the commit answer has been received and read
CommitAnswered(t) ==
    /\ "commit" \in Range(t.calls)
    /\ t.pc # "commit"
    /\ HttpError(t.resp) = ""

\* C9: for every hex string h, in any mix of cases, with or without "0x" or
\* "0X" in front, the commitment integer is the base-16 value of h, and it
\* is the single argument of the depositNativeWithId call.
C9_CommitmentIntOfHex ==
    \A w \in Tasks :
        CommitAnswered(task[w]) =>
            /\ \A h \in SeqsUpTo(HexChars, MaxHexLen),
                  p \in {<<>>, Str(<<"0", "x">>), Str(<<"0", "X">>)} :
                  task[w].resp.data.quoteId = p \o h =>
                      /\ task[w].commitment_int = Some(IntOf(Base16(h)))
                      /\ task[w].pc # "done" \/ "gas_price" \in Range(task[w].calls)
                      /\ \A i \in 1..Len(task[w].txs) :
                            /\ task[w].txs[i].fn = "depositNativeWithId"
                            /\ task[w].txs[i].args = <<IntOf(Base16(h))>>
            /\ \A h \in LongHex, p \in {<<>>, Str(<<"0", "x">>)} :
                  task[w].resp.data.quoteId = p \o h =>
                      /\ task[w].commitment_int = Some(IntOfHex(h))
                      /\ \A i \in 1..Len(task[w].txs) :
                            /\ task[w].txs[i].fn = "depositNativeWithId"
                            /\ task[w].txs[i].args = <<IntOfHex(h)>>

\* "0xAB" committed and the deposit broadcast with 171
C9_Witness ==
    \E w \in Tasks :
        /\ task[w].pc = "done"
        /\ task[w].status
        /\ CommitAnswered(task[w])
        /\ task[w].resp.data.quoteId = Str(<<"0", "x", "A", "B">>)
        /\ Len(task[w].txs) = 1
        /\ task[w].txs[1].args = <<IntOf(171)>>

\* the texts process_swap returns with False
ErrorTexts ==
    {"request failed", "Non-JSON response", "HTTP error", "Can't find JWT in response",
     "chainIn not found in configs. Available:", "chain_id failed", "Missing contractAddress",
     "tokenIn != nativeTokenName", "Amount must be > 0",
     "Not enough balance to pay gas + amount", "get_balance failed", "gas_price failed",
     "Quote has no quoteId", "Commit failed", "invalid literal for int() with base 16",
     "invalid address", "get_transaction_count failed", "send_raw_transaction failed",
     "Could not identify the intended function"}

\* the positions inside process_swap
SwapPcs ==
    {"auth", "configs", "balance", "gas_price", "quote", "commit",
     "send_gas_price", "estimate", "nonce", "broadcast"}

\* C10: no error leaves process_swap: it returns (True, hash) exactly when the
\* node accepted the deposit transaction, and (False, description) otherwise;
\* the only exceptions of a unit are those of the constructor and of the sink.
C10_ReturnsOutcome ==
    \A w \in Tasks :
        /\ task[w].exc \in {"", "InvalidKey", "export_result failed"}
        /\ task[w].exc = "InvalidKey" => ~task[w].built
        /\ task[w].built /\ ~task[w].returned => task[w].pc \in SwapPcs \cup {"sleep"}
        /\ task[w].returned =>
              /\ task[w].status <=> task[w].accepted # None
              /\ task[w].status =>
                    /\ task[w].result.text = task[w].accepted[1]
                    /\ Len(task[w].txs) = 1
              /\ ~task[w].status => task[w].result.text \in ErrorTexts

\* the node rejected the transaction: process_swap returned False
C10_Witness ==
    \E w \in Tasks :
        /\ task[w].pc = "done"
        /\ ~task[w].status
        /\ task[w].accepted = None
        /\ task[w].calls[Len(task[w].calls)] = "send_raw_transaction"
        /\ task[w].result.text = "send_raw_transaction failed"

\* C11 as stated: every record handed to the result sink carries the address
\* of the wallet, the success flag process_swap returned, and the detail of
\* the outcome (the transaction hash or the error text).
C11_RecordCarriesDetail ==
    \A w \in Tasks :
        \A i \in 1..Len(task[w].exported) :
            /\ task[w].exported[i].address = task[w].address
            /\ task[w].exported[i].status = task[w].status
            /\ "detail" \in DOMAIN task[w].exported[i]
            /\ task[w].exported[i].detail = task[w].result.text

\* C11 amended: every record handed to the result sink carries the address of
\* the wallet, the success flag process_swap returned and the name of the
\* module, and nothing else: the detail of the outcome is not in the record.
\* A unit that finished without an exception handed exactly one record.
C11_RecordCarriesAddressAndFlag ==
    \A w \in Tasks :
        /\ Len(task[w].exported) <= 1
        /\ task[w].pc = "done" => Len(task[w].exported) = 1
        /\ \A i \in 1..Len(task[w].exported) :
              /\ task[w].returned
              /\ DOMAIN task[w].exported[i] = {"address", "status", "module"}
              /\ task[w].exported[i].address = "0xA1"
              /\ task[w].exported[i].address = task[w].address
              /\ task[w].exported[i].status = task[w].status
              /\ task[w].exported[i].module = "rhino_bridge"

\* a failed workflow recorded: the error text is in the result, not in the
\* record
C11_Witness ==
    \E w \in Tasks :
        /\ task[w].pc = "done"
        /\ task[w].returned /\ ~task[w].status
        /\ task[w].result.text = "Quote has no quoteId" \/ task[w].result.text = "HTTP error"
        /\ task[w].exported = <<[address |-> "0xA1", status |-> FALSE, module |-> "rhino_bridge"]>>

IsPrefix(p, q) == Len(p) <= Len(q) /\ SubSeq(q, 1, Len(p)) = p

\* the requests of a workflow that runs to its end, in the order of the
\* steps: authenticate, fetch the config (and ask the node for the chain id
\* when the config has none), resolve the amount (two reads for the maximum
\* available, none for an explicit amount), quote, commit, deposit
WorkflowCalls(asksChainId, readsBalance) ==
    <<"auth", "configs">>
    \o (IF asksChainId THEN <<"chain_id">> ELSE <<>>)
    \o (IF readsBalance THEN <<"get_balance", "gas_price">> ELSE <<>>)
    \o <<"quote", "commit">>
    \o <<"gas_price", "estimate_gas", "get_transaction_count", "send_raw_transaction">>

\* the requests of the deposit when the call cannot be built: the node is
\* asked for its gas price and for the nonce only
UnbuiltCalls(asksChainId, readsBalance) ==
    SubSeq(WorkflowCalls(asksChainId, readsBalance), 1,
           Len(WorkflowCalls(asksChainId, readsBalance)) - 3)
    \o <<"get_transaction_count">>

\* the positions where the task waits for a function given to the executor
RpcPcs == {"balance", "gas_price", "send_gas_price", "estimate", "nonce", "broadcast"}

\* the request a task is waiting for at each position
CallAwaited(pc) ==
    CASE pc = "balance" -> "get_balance"
      [] pc \in {"gas_price", "send_gas_price"} -> "gas_price"
      [] pc = "estimate" -> "estimate_gas"
      [] pc = "nonce" -> "get_transaction_count"
      [] pc = "broadcast" -> "send_raw_transaction"
      [] OTHER -> pc

\* C12: the requests of one workflow are issued in the order authenticate,
\* fetch config, resolve amount, quote, commit, deposit, one at a time and each
\* only after the answer to the previous one was accepted: the config is
\* fetched with a token, the amount is resolved against a config that has the
\* source chain, the quote is requested for an amount that is positive (the
\* maximum available, or an explicit amount, whose text of 18 decimals may
\* be 0), the commit is requested for a quote identifier that was received,
\* and the deposit is prepared and broadcast only with the integer of a
\* committed identifier.
C12_StepsInOrder ==
    \A w \in Tasks :
        /\ \E c \in BOOLEAN, b \in BOOLEAN :
              \/ IsPrefix(task[w].calls, WorkflowCalls(c, b))
              \/ /\ task[w].calls = UnbuiltCalls(c, b)
                 /\ task[w].commitment_int # None
                 /\ ~Encodable(task[w].commitment_int[1])
        /\ task[w].thread \in {"none", "offloaded", "finished"}
        /\ task[w].thread # "none" <=> task[w].pc \in RpcPcs
        /\ task[w].pc \in SwapPcs =>
              /\ task[w].calls # <<>>
              /\ task[w].thread = "none" =>
                    task[w].calls[Len(task[w].calls)] = CallAwaited(task[w].pc)
              /\ task[w].thread # "none" => task[w].job = CallAwaited(task[w].pc)
              /\ task[w].thread = "offloaded" =>
                    task[w].calls[Len(task[w].calls)] # task[w].job
              /\ task[w].thread = "finished" =>
                    \/ task[w].calls[Len(task[w].calls)] = task[w].job
                    \/ /\ task[w].pc \in {"estimate", "broadcast"}
                       /\ task[w].commitment_int # None
                       /\ ~Encodable(task[w].commitment_int[1])
              /\ ~task[w].returned
        /\ "configs" \in Range(task[w].calls) => task[w].jwt \notin {Absent, ""}
        /\ Range(task[w].calls) \cap {"chain_id", "get_balance", "quote"} # {} =>
              /\ task[w].configs # None
              /\ CHAIN_IN \in DOMAIN task[w].configs[1]
        /\ "quote" \in Range(task[w].calls) =>
              /\ task[w].amount = None =>
                    /\ task[w].max_send # None /\ task[w].max_send[1] > 0
                    /\ task[w].amount_str.coef > 0
              /\ task[w].amount # None => task[w].amount[1] > 0
        /\ "commit" \in Range(task[w].calls) => task[w].quote_id \notin {Absent, ""}
        /\ Range(task[w].calls) \cap {"estimate_gas", "send_raw_transaction"} # {} =>
              /\ task[w].commitment_int # None
              /\ "commit" \in Range(task[w].calls)
        /\ \A i \in 1..Len(task[w].txs) :
              /\ task[w].commitment_int # None
              /\ task[w].txs[i].args = <<task[w].commitment_int[1]>>
              /\ "send_raw_transaction" \in Range(task[w].calls)

\* a workflow that went through every step, the chain id asked of the node
C12_Witness ==
    \E w \in Tasks :
        /\ task[w].pc = "done"
        /\ task[w].status
        /\ task[w].calls = WorkflowCalls(TRUE, TRUE)

\* how many times a request was issued
Count(name, calls) == Cardinality({i \in 1..Len(calls) : calls[i] = name})

\* the requests that are steps of the workflow
StepCalls == {"auth", "configs", "quote", "commit", "send_raw_transaction"}

\* at most one request of each step, at most one deposit for a commitment,
\* and nothing outstanding once process_swap has returned
SingleShot(t) ==
    /\ \A name \in StepCalls : Count(name, t.calls) <= 1
    /\ Len(t.txs) <= 1
    /\ Count("send_raw_transaction", t.calls) = Len(t.txs)
    /\ t.returned => t.pc \notin SwapPcs
    /\ t.returned /\ ~t.status =>
          /\ t.accepted = None
          /\ t.calls # <<>>
          /\ t.result.text \in {"request failed", "Non-JSON response", "HTTP error"} =>
                t.calls[Len(t.calls)] \in {"auth", "configs", "quote", "commit"}
          /\ t.result.text = "get_transaction_count failed" => t.txs = <<>>

\* once process_swap has returned, the task issues no request and builds no
\* transaction
NoRequestAfterReturn ==
    \A w \in DOMAIN task :
        w \in DOMAIN task' /\ task[w].returned =>
            /\ task'[w].calls = task[w].calls
            /\ task'[w].txs = task[w].txs
            /\ task'[w].returned
            /\ task'[w].status = task[w].status

\* C13: a swap attempt is single-shot: each of the auth request, the config
\* fetch, the quote request, the commit request and the broadcast is issued at
\* most once per wallet, a commitment is used for at most one deposit, and
\* once a step has failed (process_swap returned False) no further request
\* to the bridge API or to the node is issued, a commit that was made is
\* not rolled back.
C13_SingleShot == [](\A w \in Tasks : SingleShot(task[w])) /\ [][NoRequestAfterReturn]_vars

\* a quote committed, then the nonce read failed: the unit finished without
\* a deposit and without any request after the failure
C13_Witness ==
    \E w \in Tasks :
        /\ task[w].pc = "done"
        /\ ~task[w].status
        /\ task[w].commitment_int # None
        /\ task[w].result.text = "get_transaction_count failed"
        /\ task[w].calls[Len(task[w].calls)] = "get_transaction_count"
        /\ Count("commit", task[w].calls) = 1
        /\ task[w].txs = <<>>

\* C14 as stated: whenever gas estimation succeeds with value e, the gas
\* limit of the deposit transaction is exactly ceil(e * 1.20).
C14_GasLimitIsCeil ==
    \A w \in Tasks :
        task[w].gas_est # None =>
            /\ task[w].gas_limit = CeilDiv(task[w].gas_est[1] * 120, 100)
            /\ \A i \in 1..Len(task[w].txs) :
                  task[w].txs[i].gas = CeilDiv(task[w].gas_est[1] * 120, 100)

\* C14 amended: whenever gas estimation succeeds with value e, the gas limit
\* of the deposit transaction is e * 1.20 truncated to an integer: the
\* largest integer not above e * 1.20, which is e * 1.20 itself only when that
\* is an integer.
C14_GasLimitIsTruncated ==
    \A w \in Tasks :
        task[w].gas_est # None =>
            /\ 100 * task[w].gas_limit <= 120 * task[w].gas_est[1]
            /\ 120 * task[w].gas_est[1] < 100 * (task[w].gas_limit + 1)
            /\ \A i \in 1..Len(task[w].txs) : task[w].txs[i].gas = task[w].gas_limit

\* the estimate 100001, for which 1.20 times it is 120001.2: the deposit was
\* broadcast with the limit 120001
C14_Witness ==
    \E w \in Tasks :
        /\ task[w].pc = "done"
        /\ task[w].gas_est = Some(100001)
        /\ Len(task[w].txs) = 1
        /\ task[w].txs[1].gas = 120001

\* the request was made of the node, or the function that makes it is with
\* the executor
Requested(t, name) == name \in Range(t.calls) \/ (t.job = name /\ t.thread = "offloaded")

\* the node was asked for an estimate and the request raised
EstimateRaised(t) ==
    /\ "estimate_gas" \in Range(t.calls)
    /\ t.pc # "estimate"
    /\ t.gas_est = None

\* C15: a failure of gas estimation alone never fails the swap: when the
\* estimation request raises, the nonce is still read and, when that read
\* answers, the deposit is broadcast with the gas limit 300000; the workflow
\* then succeeds exactly when the node accepts the transaction.  (When the
\* deposit call itself cannot be built, the estimation raises before any
\* request and so does the deposit, after the nonce read: not a failure of
\* the estimation alone.)
C15_EstimateFailureFallsBack ==
    \A w \in Tasks :
        /\ task[w].commitment_int # None /\ ~Encodable(task[w].commitment_int[1]) =>
              /\ ~EstimateRaised(task[w])
              /\ task[w].txs = <<>>
              /\ task[w].returned => ~task[w].status
              /\ "get_transaction_count" \in Range(task[w].calls) =>
                    task[w].gas_limit = 300000
        /\ EstimateRaised(task[w]) =>
              /\ task[w].gas_limit = 300000
              /\ Requested(task[w], "get_transaction_count")
              /\ task[w].result.text # "estimate_gas failed"
              /\ task[w].pc # "nonce" /\ task[w].result.text # "get_transaction_count failed" =>
                    /\ Requested(task[w], "send_raw_transaction")
                    /\ "send_raw_transaction" \in Range(task[w].calls) =>
                          /\ Len(task[w].txs) = 1
                          /\ task[w].txs[1].gas = 300000
                    /\ task[w].returned => "send_raw_transaction" \in Range(task[w].calls)
                    /\ task[w].returned =>
                          /\ task[w].status <=> task[w].accepted # None
                          /\ ~task[w].status => task[w].result.text = "send_raw_transaction failed"
              /\ task[w].returned /\ task[w].result.text = "get_transaction_count failed" =>
                    ~task[w].status /\ task[w].txs = <<>>

\* the estimation raised and the deposit, sent with the fixed limit, was
\* accepted
C15_Witness ==
    \E w \in Tasks :
        /\ task[w].pc = "done"
        /\ EstimateRaised(task[w])
        /\ task[w].status
        /\ task[w].accepted # None
        /\ Len(task[w].txs) = 1
        /\ task[w].txs[1].gas = 300000

\* the config was fetched, has an entry for the source chain, and
\* process_swap has gone through its checks of the entry
ChainEntryChecked(t) ==
    /\ t.configs # None
    /\ CHAIN_IN \in DOMAIN t.configs[1]
    /\ t.pc # "configs"

\* C16 as stated: a quote request is sent only when the entry of the source
\* chain declares the native-token name BNB; for every other entry (another
\* name, an empty name, no name) the workflow fails and sends no quote request.
C16_QuoteOnlyForNativeToken ==
    \A w \in Tasks :
        ChainEntryChecked(task[w]) /\ task[w].configs[1][CHAIN_IN].nativeTokenName # "BNB" =>
            /\ "quote" \notin Range(task[w].calls)
            /\ task[w].returned /\ ~task[w].status

\* C16 amended: a quote request is sent only when the entry of the source
\* chain declares the native-token name BNB or declares none (the name is
\* empty or absent); for an entry that declares another name the workflow
\* fails before any balance read or quote request, with an error that names
\* it, unless an earlier check of the entry has already failed.
C16_QuoteUnlessOtherToken ==
    \A w \in Tasks :
        ChainEntryChecked(task[w]) =>
            LET name == task[w].configs[1][CHAIN_IN].nativeTokenName
            IN  /\ name \notin {Absent, "", "BNB"} =>
                      /\ task[w].returned /\ ~task[w].status
                      /\ task[w].result.text \in
                            {"tokenIn != nativeTokenName", "Missing contractAddress",
                             "chain_id failed"}
                      /\ Range(task[w].calls) \subseteq {"auth", "configs", "chain_id"}
                      /\ task[w].txs = <<>>
                /\ task[w].result.text = "tokenIn != nativeTokenName" =>
                      /\ name \notin {Absent, "", "BNB"}
                      /\ task[w].result.args = <<name>>
                /\ "quote" \in Range(task[w].calls) => name \in {Absent, "", "BNB"}

\* an entry without a native-token name: the quote was requested and the
\* deposit made
C16_Witness ==
    \E w \in Tasks :
        /\ task[w].pc = "done"
        /\ task[w].status
        /\ ChainEntryChecked(task[w])
        /\ task[w].configs[1][CHAIN_IN].nativeTokenName = Absent
        /\ "quote" \in Range(task[w].calls)

\* process_swaps is over, every unit has terminated and every slot of the
\* semaphore is free; every wallet whose key parses has run its workflow
AllFinished ==
    /\ orch \in {"returned", "raised", "cancelled", "stopped"}
    /\ Len(task) = Len(wallets)
    /\ \A w \in Tasks :
          /\ Terminal(task[w])
          /\ KeyParses(task[w].key) => task[w].returned /\ "auth" \in Range(task[w].calls)
    /\ holders = {}
    /\ sem.value = SemaphoreCapacity
    /\ \A w \in Tasks : task[w].thread = "none"

\* C17: provided every network call returns or fails, every unit of work
\* of a batch eventually terminates and releases its slot, no wallet waits
\* forever for the semaphore, also with more wallets than N: every wallet
\* eventually runs its workflow, and process_swaps eventually completes.
C17_EventuallyAllFinished == (orch = "gathering") ~> AllFinished

\* C18: in max-available mode the deposit is affordable from the balance that
\* was read: the value of the transaction plus its gas limit times its gas
\* price does not exceed the balance read when the amount was resolved.
C18_DepositAffordable ==
    \A w \in Tasks :
        task[w].amount = None =>
            \A i \in 1..Len(task[w].txs) :
                task[w].txs[i].value + task[w].txs[i].gas * task[w].txs[i].gasPrice
                    <= task[w].balance

\* the tasks whose module has an open HTTP client
OpenClients == {w \in Tasks : task[w].client}

\* C19: at every instant at most N bridge HTTP clients are open: a client is
\* open only in a task that holds the semaphore, and a task that has
\* released its slot has closed its client, after handing its record to the
\* sink when its module was built.
C19_OpenClientsBound ==
    /\ Cardinality(OpenClients) <= NThreads
    /\ OpenClients \subseteq holders
    /\ \A w \in Tasks :
          /\ task[w].pc \in {"queued", "waiting"} => ~task[w].client /\ task[w].calls = <<>>
          /\ Terminal(task[w]) =>
                /\ w \notin holders
                /\ ~task[w].client
                /\ task[w].built => Len(task[w].exported) = 1

====
